---- MODULE Spec2Model ----
(***************************************************************************)
(* Model of the youtube-sentiment-analyzer ingestion / analysis pipeline:  *)
(* the per-org token bucket (app/services/rate_limiter.py), the ingest     *)
(* route (app/api/routes/ingest.py), the upsert layer (services/videos.py, *)
(* services/dedupe.py), the Celery tasks (tasks/fetch.py,                  *)
(* tasks/analyze.py), the sentiment wrapper (services/nlp_sentiment.py)    *)
(* and the analytics services and routes (services/aggregates.py,          *)
(* services/keywords.py, api/routes/analytics.py).                         *)
(*                                                                         *)
(* Time is counted in whole seconds.  Token amounts are stored multiplied  *)
(* by RATE_LIMIT_REFILL_DEN (60), so that the refill rate 5/60 token per   *)
(* second is the integer RATE_LIMIT_REFILL_NUM (5) per second and one      *)
(* token is 60 units; for the elapsed times used here the float            *)
(* arithmetic of the code is exact (12 * (5/60) == 1.0).                   *)
(***************************************************************************)
EXTENDS Integers, Sequences, FiniteSets, TLC

VARIABLES
    now,        \* time.time(), in seconds
    redis,      \* rate:{org_id} hashes of the rate limiter, with their TTL
    rlLog,      \* per org: results of the check_rate_limit calls since the bucket was created
    calls,      \* check_rate_limit coroutines that run step by step: their locals
    redis_up,   \* whether the Redis server can be reached
    resp,       \* last HTTP response of the API (and how many were served)
    tasks,      \* Celery tasks: sequence of task records, task id = index
    videos,     \* table videos
    comments,   \* table comments
    sentiments, \* table comment_sentiment
    aggregates, \* table sentiment_aggregates
    keywords,   \* table keywords
    ext,        \* the external source: per external video id, its pages of comments
    lastUpsert, \* the last upsert_comments call: arguments and the rows it met
    nlp,        \* last analyze_batch call: raw classifier output and the normalized result
    worker      \* module globals of nlp_sentiment in worker process 1, and what
                \* _load_model did there

vars == <<now, redis, rlLog, calls, redis_up, resp, tasks, videos, comments, sentiments,
          aggregates, keywords, ext, lastUpsert, nlp, worker>>

dbVars == <<videos, comments, sentiments, aggregates, keywords>>

Orgs == {"o1", "o2"}
ExtVideos == {"yt1"}
NULL == "NULL"

Min(a, b) == IF a <= b THEN a ELSE b

(***************************************************************************)
(* Rate limiter                                                            *)
(***************************************************************************)
RATE_LIMIT_MAX_TOKENS == 5
RATE_LIMIT_REFILL_NUM == 5
RATE_LIMIT_REFILL_DEN == 60
KEY_TTL == 60

\* bounds of the rate-limiter specification
MaxTime == 72
MaxCalls == 8
Deltas == {6, 12, 60}
RateOrgs == {"o1"}

OneToken == RATE_LIMIT_REFILL_DEN
Capacity == RATE_LIMIT_MAX_TOKENS * RATE_LIMIT_REFILL_DEN

NoBucket == [present |-> FALSE, tokens |-> 0, last_refill |-> 0, expire_at |-> 0]

\* the first command of check_rate_limit is answered by the server whatever
\* its state
hgetall_raises_never == FALSE

\* line 50: redis.hgetall raises ConnectionError when the server cannot be
\* reached; nothing in check_rate_limit or in the route catches it
hgetall_raises == ~redis_up

\* redis.hgetall(key): the hash, or {} when the key does not exist or its TTL ran out
HGetAll(o) ==
    IF redis[o].present /\ now < redis[o].expire_at THEN redis[o] ELSE NoBucket

\* the refill without the cap at the capacity
Refilled_uncapped(bucket) ==
    LET tokens == IF bucket.present THEN bucket.tokens ELSE Capacity
        last_refill == IF bucket.present THEN bucket.last_refill ELSE now
        elapsed == now - last_refill
    IN  tokens + elapsed * RATE_LIMIT_REFILL_NUM

\* lines 58-60: tokens after the refill for the elapsed time
Refilled(bucket) ==
    LET tokens == IF bucket.present THEN bucket.tokens ELSE Capacity
        last_refill == IF bucket.present THEN bucket.last_refill ELSE now
        elapsed == now - last_refill
    IN  Min(Capacity, tokens + elapsed * RATE_LIMIT_REFILL_NUM)

\* the admission test with > in place of >=
Allowed_strict(o) == Refilled(HGetAll(o)) > OneToken

\* line 61: allowed = tokens >= 1.0
Allowed(o) == Refilled(HGetAll(o)) >= OneToken

\* a denied call that stores the tokens it read, without the refill
BucketAfter_refill_lost(o) ==
    LET tokens == Refilled(HGetAll(o))
    IN  [present |-> TRUE,
         tokens |-> IF Allowed(o) THEN tokens - OneToken
                    ELSE (IF HGetAll(o).present THEN HGetAll(o).tokens ELSE Capacity),
         last_refill |-> now,
         expire_at |-> now + KEY_TTL]

\* lines 63-78: hset + expire on both branches
BucketAfter(o) ==
    LET tokens == Refilled(HGetAll(o))
    IN  [present |-> TRUE,
         tokens |-> IF Allowed(o) THEN tokens - OneToken ELSE tokens,
         last_refill |-> now,
         expire_at |-> now + KEY_TTL]

\* check_rate_limit(org_id): the writes to the store and the log of results
check_rate_limit(o) ==
    /\ redis' = [redis EXCEPT ![o] = BucketAfter(o)]
    /\ rlLog' = [rlLog EXCEPT ![o] =
                    IF HGetAll(o).present
                    THEN Append(@, [t |-> now, allowed |-> Allowed(o)])
                    ELSE <<[t |-> now, allowed |-> Allowed(o)]>>]

\* check_rate_limit run from its first to its last line, with its result
\* kept in calls
RlCall(o, maxCalls) ==
    /\ ~hgetall_raises
    /\ Len(calls) < maxCalls
    /\ check_rate_limit(o)
    /\ calls' = Append(calls, [org_id |-> o, now |-> now,
                               tokens |-> Refilled(HGetAll(o)),
                               allowed |-> Allowed(o), pc |-> "done"])
    /\ UNCHANGED <<now, redis_up, resp, tasks, dbVars, ext, lastUpsert, nlp, worker>>

\* a key that hset creates has no TTL: it outlives every time of the model
NoExpiry == MaxTime + KEY_TTL + 1

\* check_rate_limit step by step, as concurrent requests run it.
\* lines 46-61: now, hgetall, and the refill and the test on what was read
RlRead(o, maxCalls, maxInFlight) ==
    /\ ~hgetall_raises
    /\ Len(calls) < maxCalls
    /\ Cardinality({i \in 1..Len(calls) : calls[i].pc # "done"}) < maxInFlight
    /\ calls' = Append(calls, [org_id |-> o, now |-> now,
                               tokens |-> Refilled(HGetAll(o)),
                               allowed |-> Allowed(o), pc |-> "hset"])
    /\ UNCHANGED <<now, redis, rlLog, redis_up, resp, tasks, dbVars, ext,
                   lastUpsert, nlp, worker>>

\* lines 63-68 and 72-76: hset of the two fields computed from what was read;
\* hset leaves the TTL of an existing key alone
RlHSet(i) ==
    /\ redis_up
    /\ calls[i].pc = "hset"
    /\ LET c == calls[i]
           cur == HGetAll(c.org_id)
       IN  redis' = [redis EXCEPT ![c.org_id] =
                       [present |-> TRUE,
                        tokens |-> IF c.allowed THEN c.tokens - OneToken ELSE c.tokens,
                        last_refill |-> c.now,
                        expire_at |-> IF cur.present THEN cur.expire_at ELSE NoExpiry]]
    /\ calls' = [calls EXCEPT ![i].pc = "expire"]
    /\ UNCHANGED <<now, rlLog, redis_up, resp, tasks, dbVars, ext, lastUpsert,
                   nlp, worker>>

\* lines 69-70 and 77-78: expire(key, 60), and the call returns allowed
RlExpire(i) ==
    /\ redis_up
    /\ calls[i].pc = "expire"
    /\ redis' = [redis EXCEPT ![calls[i].org_id] =
                    IF HGetAll(calls[i].org_id).present
                    THEN [@ EXCEPT !.expire_at = now + KEY_TTL] ELSE NoBucket]
    /\ calls' = [calls EXCEPT ![i].pc = "done"]
    /\ UNCHANGED <<now, rlLog, redis_up, resp, tasks, dbVars, ext, lastUpsert,
                   nlp, worker>>

\* check_rate_limit run alone at time t on bucket b: the bucket it leaves and
\* its result
SeqStep(b, t) ==
    LET live == IF b.present /\ t < b.expire_at THEN b ELSE NoBucket
        tokens == IF live.present THEN live.tokens ELSE Capacity
        last_refill == IF live.present THEN live.last_refill ELSE t
        refilled == Min(Capacity, tokens + (t - last_refill) * RATE_LIMIT_REFILL_NUM)
        allowed == refilled >= OneToken
    IN  [bucket |-> [present |-> TRUE,
                     tokens |-> IF allowed THEN refilled - OneToken ELSE refilled,
                     last_refill |-> t, expire_at |-> t + KEY_TTL],
         allowed |-> allowed]

\* how many of the calls cs a sequential execution at their times admits
RECURSIVE SeqAdmitted(_, _)
SeqAdmitted(b, cs) ==
    IF cs = <<>> THEN 0
    ELSE LET r == SeqStep(b, Head(cs).now)
         IN  (IF r.allowed THEN 1 ELSE 0) + SeqAdmitted(r.bucket, Tail(cs))

(***************************************************************************)
(* The external source (app/services/youtube_client.py is a stub of it)    *)
(***************************************************************************)
CommentIds == {"yt1_c0", "yt1_c1"}

\* two versions of the comment with external id cid; the second one lacks
\* the optional keys author and like_count
CommentVersion(cid, n) ==
    IF n = 1
    THEN [yt_comment_id |-> cid, text |-> "The cat sat", author |-> "user1",
          published_at |-> "2024-01-01", like_count |-> 10, parent_id |-> NULL]
    ELSE [yt_comment_id |-> cid, text |-> "the cat ran",
          published_at |-> "2024-01-02", parent_id |-> "yt1_c0"]

Versions == {1, 2}

\* the page lists fetch_comments may yield: no page, one page, two pages; a
\* comment edited while the pages are read shows up on two pages
ExtPages ==
    {<<>>}
    \cup {<< <<CommentVersion("yt1_c0", a)>>, <<CommentVersion("yt1_c0", b)>> >> :
             a \in Versions, b \in Versions}
    \cup {<< <<CommentVersion("yt1_c0", a)>> >> : a \in Versions}
    \cup {<< <<CommentVersion("yt1_c0", a)>>, <<CommentVersion("yt1_c1", b)>> >> :
             a \in Versions, b \in Versions}
    \cup {<< <<CommentVersion("yt1_c0", a), CommentVersion("yt1_c1", b)>> >> :
             a \in Versions, b \in Versions}

ExtMeta == {[title |-> "Stub title for yt1", channel_id |-> "stub_channel"]}

ExtStates == [meta : ExtMeta, pages : ExtPages]

\* fetch_video_metadata(video_id)
fetch_video_metadata(v) == ext[v].meta

(***************************************************************************)
(* Upsert layer                                                            *)
(***************************************************************************)
\* a new primary key (uuid4): one that no row of the table has
FreshId(table) ==
    CHOOSE i \in 1..(Cardinality(table) + 1) : \A r \in table : r.id # i

\* dict.get(key, default)
Get(c, key, default) == IF key \in DOMAIN c THEN c[key] ELSE default

\* dict.setdefault(key, default)
SetDefault(c, key, default) ==
    IF key \in DOMAIN c THEN c ELSE (key :> default) @@ c

\* upsert_video without its ON CONFLICT clause: a plain INSERT
upsert_video_plain(vs, org_id, video_id, meta) ==
    vs \cup {[id |-> FreshId(vs), org_id |-> org_id, yt_video_id |-> video_id,
              title |-> meta.title, channel_id |-> meta.channel_id,
              last_analyzed_at |-> NULL]}

\* INSERT INTO videos ... ON CONFLICT (org_id, yt_video_id) DO UPDATE
\*     SET title, channel_id, last_analyzed_at = now()
upsert_video(vs, org_id, video_id, meta) ==
    IF \E r \in vs : r.org_id = org_id /\ r.yt_video_id = video_id
    THEN {IF r.org_id = org_id /\ r.yt_video_id = video_id
          THEN [r EXCEPT !.title = meta.title, !.channel_id = meta.channel_id,
                         !.last_analyzed_at = "now"]
          ELSE r : r \in vs}
    ELSE vs \cup {[id |-> FreshId(vs), org_id |-> org_id, yt_video_id |-> video_id,
                   title |-> meta.title, channel_id |-> meta.channel_id,
                   last_analyzed_at |-> NULL]}

\* RETURNING videos.id of a statement that does not look at the org
VideoPk_any_org(vs, org_id, video_id) ==
    (CHOOSE r \in vs : r.yt_video_id = video_id).id

\* RETURNING videos.id
VideoPk(vs, org_id, video_id) ==
    (CHOOSE r \in vs : r.org_id = org_id /\ r.yt_video_id = video_id).id

\* dedupe.py lines 46-60: the row built for one comment dict
CommentValues(org_id, video_id, c) ==
    [org_id |-> org_id, video_id |-> video_id, yt_comment_id |-> c.yt_comment_id,
     author |-> Get(c, "author", NULL), text |-> Get(c, "text", NULL),
     published_at |-> Get(c, "published_at", NULL),
     like_count |-> Get(c, "like_count", 0), parent_id |-> Get(c, "parent_id", NULL)]

\* the comment insert without its ON CONFLICT clause: a plain INSERT
UpsertCommentRow_plain(cs, x) == cs \cup {[id |-> FreshId(cs)] @@ x}

\* one row of INSERT INTO comments ... ON CONFLICT (org_id, yt_comment_id) DO UPDATE
UpsertCommentRow(cs, x) ==
    IF \E r \in cs : r.org_id = x.org_id /\ r.yt_comment_id = x.yt_comment_id
    THEN {IF r.org_id = x.org_id /\ r.yt_comment_id = x.yt_comment_id
          THEN [r EXCEPT !.author = x.author, !.text = x.text,
                         !.published_at = x.published_at,
                         !.like_count = x.like_count, !.parent_id = x.parent_id]
          ELSE r : r \in cs}
    ELSE cs \cup {[id |-> FreshId(cs)] @@ x}

RECURSIVE UpsertRows(_, _, _, _)
UpsertRows(cs, org_id, video_id, batch) ==
    IF batch = <<>> THEN cs
    ELSE UpsertRows(UpsertCommentRow(cs, CommentValues(org_id, video_id, Head(batch))),
                    org_id, video_id, Tail(batch))

\* an upsert that commits row by row and stops after the first row
upsert_comments_first_row(org_id, video_id, batch) ==
    /\ comments' = UpsertRows(comments, org_id, video_id, SubSeq(batch, 1, 1))
    /\ lastUpsert' = [org_id |-> org_id, video_id |-> video_id, batch |-> batch,
                      met |-> {r \in comments : /\ r.org_id = org_id
                                                /\ \E k \in 1..Len(batch) :
                                                     batch[k].yt_comment_id = r.yt_comment_id}]

\* upsert_comments(db, org_id, video_id, comments): one statement, then commit.
\* The comments of one batch have pairwise different yt_comment_id.
upsert_comments(org_id, video_id, batch) ==
    /\ comments' = UpsertRows(comments, org_id, video_id, batch)
    /\ lastUpsert' = [org_id |-> org_id, video_id |-> video_id, batch |-> batch,
                      met |-> {r \in comments : /\ r.org_id = org_id
                                                /\ \E k \in 1..Len(batch) :
                                                     batch[k].yt_comment_id = r.yt_comment_id}]

(***************************************************************************)
(* Celery tasks                                                            *)
(***************************************************************************)
MAX_RETRIES == 5

NoMeta == [title |-> NULL, channel_id |-> NULL]

\* the locals of a task body that has not started (or is started again)
NewTask(kind, video_id, org_id) ==
    [kind |-> kind, video_id |-> video_id, org_id |-> org_id,
     status |-> "PENDING", retries |-> 0, pc |-> "queued",
     meta |-> NoMeta, video_pk |-> 0, page |-> 0, batch |-> <<>>, total |-> 0,
     sel |-> <<>>, seen |-> {}, result |-> -1, before |-> <<{}, {}>>,
     window |-> "daily"]

\* fetch_comments_task.delay(...) / analyze_comments_task.delay(...)
Submit(kind, v, o, maxTasks) ==
    /\ Len(tasks) < maxTasks
    /\ tasks' = Append(tasks, NewTask(kind, v, o))
    /\ UNCHANGED <<now, redis, rlLog, calls, redis_up, resp, dbVars, ext, lastUpsert, nlp, worker>>

RECURSIVE SumRetries(_)
SumRetries(ts) == IF ts = <<>> THEN 0 ELSE Head(ts).retries + SumRetries(Tail(ts))

Running(i) == tasks[i].status = "STARTED"

\* a worker process is free to take a task
WorkerFree(workers) ==
    Cardinality({j \in 1..Len(tasks) : tasks[j].status = "STARTED"}) < workers

\* autoretry with a bound that lets one more attempt through
Retry_once_more(t) ==
    IF t.retries <= MAX_RETRIES
    THEN [t EXCEPT !.status = "RETRY", !.retries = @ + 1, !.pc = "queued",
                   !.meta = NoMeta, !.video_pk = 0, !.page = 0, !.batch = <<>>,
                   !.total = 0, !.sel = <<>>, !.seen = {}]
    ELSE [t EXCEPT !.status = "FAILURE", !.pc = "done"]

\* the task body raises: autoretry_for=(Exception,), max_retries=5
Retry(t) ==
    IF t.retries < MAX_RETRIES
    THEN [t EXCEPT !.status = "RETRY", !.retries = @ + 1, !.pc = "queued",
                   !.meta = NoMeta, !.video_pk = 0, !.page = 0, !.batch = <<>>,
                   !.total = 0, !.sel = <<>>, !.seen = {}]
    ELSE [t EXCEPT !.status = "FAILURE", !.pc = "done"]

\* a transient error (network, database) at the step the task is about to take;
\* the statement or commit of that step has no effect
TaskFail(i, maxFailures) ==
    /\ Running(i)
    /\ SumRetries(tasks) < maxFailures
    /\ tasks' = [tasks EXCEPT ![i] = Retry(@)]
    /\ UNCHANGED <<now, redis, rlLog, calls, redis_up, resp, dbVars, ext, lastUpsert, nlp, worker>>

(***************************************************************************)
(* tasks/fetch.py: _fetch_comments, step by step                           *)
(***************************************************************************)
\* lines 84-88: defaults of the optional keys
WithDefaults(c) ==
    SetDefault(SetDefault(SetDefault(SetDefault(c,
        "author", "Anonymous"),
        "published_at", "1970-01-01T00:00:00Z"),
        "like_count", 0),
        "parent_id", NULL)

BatchWithDefaults(batch) == [k \in 1..Len(batch) |-> WithDefaults(batch[k])]

\* the worker takes the task and goes on to the comments with no video row
FetchMeta_skip_video(i, workers) ==
    /\ tasks[i].kind = "fetch" /\ tasks[i].pc = "queued"
    /\ WorkerFree(workers)
    /\ tasks' = [tasks EXCEPT ![i] =
                    [@ EXCEPT !.status = "STARTED", !.pc = "fetch_page",
                              !.meta = fetch_video_metadata(tasks[i].video_id),
                              !.before = IF tasks[i].retries = 0 THEN <<videos, comments>>
                                         ELSE tasks[i].before]]
    /\ UNCHANGED <<now, redis, rlLog, calls, redis_up, resp, dbVars, ext, lastUpsert, nlp, worker>>

\* line 78: the worker takes the task and fetches the video metadata
FetchMeta(i, workers) ==
    /\ tasks[i].kind = "fetch" /\ tasks[i].pc = "queued"
    /\ WorkerFree(workers)
    /\ tasks' = [tasks EXCEPT ![i] =
                    [@ EXCEPT !.status = "STARTED", !.pc = "upsert_video",
                              !.meta = fetch_video_metadata(tasks[i].video_id),
                              !.before = IF tasks[i].retries = 0 THEN <<videos, comments>>
                                         ELSE tasks[i].before]]
    /\ UNCHANGED <<now, redis, rlLog, calls, redis_up, resp, dbVars, ext, lastUpsert, nlp, worker>>

\* line 79: upsert_video commits and returns the row
FetchUpsertVideo(i) ==
    /\ Running(i) /\ tasks[i].pc = "upsert_video"
    /\ LET t == tasks[i]
           vs == upsert_video(videos, t.org_id, t.video_id, t.meta)
       IN  /\ videos' = vs
           /\ tasks' = [tasks EXCEPT ![i] =
                           [@ EXCEPT !.pc = "fetch_page",
                                     !.video_pk = VideoPk(vs, t.org_id, t.video_id)]]
    /\ UNCHANGED <<now, redis, rlLog, calls, redis_up, resp, comments, sentiments, aggregates,
                   keywords, ext, lastUpsert, nlp, worker>>

\* lines 83-88: the next page of fetch_comments, or the end of the stream
FetchPage(i) ==
    /\ Running(i) /\ tasks[i].pc = "fetch_page"
    /\ LET t == tasks[i]
           pages == ext[t.video_id].pages
       IN  tasks' = [tasks EXCEPT ![i] =
                        IF t.page < Len(pages)
                        THEN [@ EXCEPT !.pc = "upsert_page",
                                       !.batch = BatchWithDefaults(pages[t.page + 1])]
                        ELSE [@ EXCEPT !.pc = "commit"]]
    /\ UNCHANGED <<now, redis, rlLog, calls, redis_up, resp, dbVars, ext, lastUpsert, nlp, worker>>

\* lines 91-92: upsert_comments with the internal video id, then total += len(batch)
FetchUpsertPage(i) ==
    /\ Running(i) /\ tasks[i].pc = "upsert_page"
    /\ upsert_comments(tasks[i].org_id, tasks[i].video_pk, tasks[i].batch)
    /\ tasks' = [tasks EXCEPT ![i] =
                    [@ EXCEPT !.pc = "fetch_page", !.page = @ + 1,
                              !.total = @ + Len(tasks[i].batch), !.batch = <<>>]]
    /\ UNCHANGED <<now, redis, rlLog, calls, redis_up, resp, videos, sentiments, aggregates,
                   keywords, ext, nlp, worker>>

\* lines 95-96: the final commit and the result of the task
FetchFinish(i) ==
    /\ Running(i) /\ tasks[i].pc = "commit"
    /\ tasks' = [tasks EXCEPT ![i] =
                    [@ EXCEPT !.status = "SUCCESS", !.pc = "done", !.result = tasks[i].total]]
    /\ UNCHANGED <<now, redis, rlLog, calls, redis_up, resp, dbVars, ext, lastUpsert, nlp, worker>>

(***************************************************************************)
(* services/nlp_sentiment.py                                               *)
(***************************************************************************)
HF_MODEL_NAME == "hf-model"

UpperCase == <<"A", "B", "C", "D", "E", "F", "G", "H", "I", "J", "K", "L", "M",
               "N", "O", "P", "Q", "R", "S", "T", "U", "V", "W", "X", "Y", "Z">>
LowerCase == <<"a", "b", "c", "d", "e", "f", "g", "h", "i", "j", "k", "l", "m",
               "n", "o", "p", "q", "r", "s", "t", "u", "v", "w", "x", "y", "z">>

LowerChar(ch) ==
    IF \E k \in 1..Len(UpperCase) : UpperCase[k] = ch
    THEN LowerCase[CHOOSE k \in 1..Len(UpperCase) : UpperCase[k] = ch]
    ELSE ch

\* str.lower(), a string being the sequence of its characters
lower(str) == [k \in 1..Len(str) |-> LowerChar(str[k])]

\* str.startswith(prefix)
startswith(str, prefix) ==
    Len(str) >= Len(prefix) /\ SubSeq(str, 1, Len(prefix)) = prefix

\* the labels a classifier pipeline may give
RawLabels ==
    {<<"P", "O", "S", "I", "T", "I", "V", "E">>,
     <<"N", "E", "G", "A", "T", "I", "V", "E">>,
     <<"S", "U", "R", "P", "R", "I", "S", "E">>,
     <<"p", "o", "s">>, <<"N", "e", "g">>, <<"P", "o">>,
     <<"n", "e", "u", "t", "r", "a", "l">>,
     <<"L", "A", "B", "E", "L", "_", "1">>, <<>>}

\* the three labels of the usual sentiment models
CommonLabels ==
    {<<"P", "O", "S", "I", "T", "I", "V", "E">>,
     <<"N", "E", "G", "A", "T", "I", "V", "E">>,
     <<"n", "e", "u", "t", "r", "a", "l">>}

\* the labels of a model with two classes
BinaryLabels ==
    {<<"P", "O", "S", "I", "T", "I", "V", "E">>,
     <<"N", "E", "G", "A", "T", "I", "V", "E">>}

\* confidence, in percent
Scores == {95}

\* lines 72-79 without the lower(): the raw label is matched as it comes
Normalize_cased(raw) ==
    IF startswith(raw, <<"p", "o", "s">>) THEN "pos"
    ELSE IF startswith(raw, <<"n", "e", "g">>) THEN "neg"
    ELSE "neu"

\* lines 72-79: the short lower-case label
Normalize(raw) ==
    LET label == lower(raw)
    IN  IF startswith(label, <<"p", "o", "s">>) THEN "pos"
        ELSE IF startswith(label, <<"n", "e", "g">>) THEN "neg"
        ELSE "neu"

\* lines 70-88 with an else branch that keeps the long form of the label
Normalized_long(results) ==
    [k \in 1..Len(results) |->
        [label |-> IF Normalize(results[k].label) = "neu" THEN "neutral"
                   ELSE Normalize(results[k].label),
         score |-> results[k].score, model_name |-> HF_MODEL_NAME]]

\* lines 70-88: results is what the pipeline gave for the texts, one per text
Normalized(results) ==
    [k \in 1..Len(results) |->
        [label |-> Normalize(results[k].label), score |-> results[k].score,
         model_name |-> HF_MODEL_NAME]]

\* what model(texts, ...) may give: one result per text, in the order of the texts
PipelineResults(texts, labels) ==
    [1..Len(texts) -> [label : labels, score : Scores]]

\* the globals of a process that has just imported the module (lines 25-28);
\* model 0 is None, constructed counts the pipeline(...) calls and returned is
\* what the last _load_model call returned
NoModel == [model |-> 0, model_loaded |-> FALSE, constructed |-> 0, returned |-> 0]

\* _load_model without the test of line 41
LoadModel_always(w) ==
    [model |-> w.constructed + 1, model_loaded |-> TRUE,
     constructed |-> w.constructed + 1, returned |-> w.constructed + 1]

\* lines 34-48: _load_model(); each pipeline(...) call gives a new instance
LoadModel(w) ==
    IF w.model = 0
    THEN [model |-> w.constructed + 1, model_loaded |-> TRUE,
          constructed |-> w.constructed + 1, returned |-> w.constructed + 1]
    ELSE [w EXCEPT !.returned = w.model]

\* a call of _load_model() in process 1
load_model ==
    /\ worker' = LoadModel(worker)
    /\ UNCHANGED <<now, redis, rlLog, calls, redis_up, resp, tasks, dbVars, ext, lastUpsert, nlp>>

\* analyze_batch(texts) for the texts in nlp.texts, called outside a task
analyze_batch(labels) ==
    /\ nlp.texts # <<>> /\ nlp.raw = <<>>
    /\ worker' = LoadModel(worker)
    /\ \E results \in PipelineResults(nlp.texts, labels) :
          nlp' = [nlp EXCEPT !.raw = results, !.out = Normalized(results)]
    /\ UNCHANGED <<now, redis, rlLog, calls, redis_up, resp, tasks, dbVars, ext, lastUpsert>>

\* the caller has the texts of its next call
next_texts(texts) ==
    /\ nlp.raw # <<>>
    /\ nlp' = [texts |-> texts, raw |-> <<>>, out |-> <<>>]
    /\ UNCHANGED <<now, redis, rlLog, calls, redis_up, resp, tasks, dbVars, ext, lastUpsert, worker>>

(***************************************************************************)
(* tasks/analyze.py: _analyze_comments                                     *)
(***************************************************************************)
\* all orders of the rows of a set
Orderings(S) ==
    {f \in [1..Cardinality(S) -> S] : \A a, b \in 1..Cardinality(S) : f[a] = f[b] => a = b}

\* the Comment rows of any org that belong to a video with this external id
CommentsOf_any_org(org_id, video_id) ==
    {c \in comments : \E v \in videos : v.id = c.video_id /\ v.yt_video_id = video_id}

\* the Comment rows of the org that belong to the video with this external id
CommentsOf(org_id, video_id) ==
    {c \in comments : /\ c.org_id = org_id
                      /\ \E v \in videos : v.id = c.video_id /\ v.yt_video_id = video_id}

\* lines 81-85 only: the select without its anti-join
Unanalyzed_all(org_id, video_id) == CommentsOf(org_id, video_id)

\* lines 81-93: the comments of the org and video without a sentiment row
Unanalyzed(org_id, video_id) ==
    {c \in CommentsOf(org_id, video_id) :
        c.id \notin {s.comment_id : s \in {x \in sentiments : x.org_id = org_id}}}

\* lines 107-118: the CommentSentiment objects added to the session
Staged(org_id, selected, results) ==
    [k \in 1..Min(Len(selected), Len(results)) |->
        [org_id |-> org_id, comment_id |-> selected[k].id,
         label |-> results[k].label, score |-> results[k].score,
         model_name |-> results[k].model_name]]

\* a table comment_sentiment without its unique constraint
UniqueViolation_none(ss, rows) == FALSE

\* uq_org_comment_sentiment: some row to insert has the key of a stored row
UniqueViolation(ss, rows) ==
    \E k \in 1..Len(rows), s \in ss :
        s.org_id = rows[k].org_id /\ s.comment_id = rows[k].comment_id

RECURSIVE InsertSentiments(_, _, _)
InsertSentiments(ss, rows, analyzed_at) ==
    IF rows = <<>> THEN ss
    ELSE InsertSentiments(
            ss \cup {[id |-> FreshId(ss), analyzed_at |-> analyzed_at] @@ Head(rows)},
            Tail(rows), analyzed_at)

\* lines 79-103: the worker takes the task, selects the comments to analyze
\* and runs them through analyze_batch
AnalyzeSelect(i, workers, labels) ==
    /\ tasks[i].kind = "analyze" /\ tasks[i].pc = "queued"
    /\ WorkerFree(workers)
    /\ LET t == tasks[i]
           todo == Unanalyzed(t.org_id, t.video_id)
           seen == {c.id : c \in CommentsOf(t.org_id, t.video_id)}
       IN  IF todo = {}
           THEN /\ tasks' = [tasks EXCEPT ![i] =
                               [@ EXCEPT !.status = "SUCCESS", !.pc = "done",
                                         !.seen = seen, !.result = 0]]
                /\ UNCHANGED <<nlp, worker>>
           ELSE \E selected \in Orderings(todo) :
                \E results \in PipelineResults(selected, labels) :
                \E process \in 1..workers :
                   /\ worker' = IF process = 1 THEN LoadModel(worker) ELSE worker
                   /\ nlp' = [texts |-> [k \in 1..Len(selected) |-> selected[k].text],
                              raw |-> results, out |-> Normalized(results)]
                   /\ tasks' = [tasks EXCEPT ![i] =
                                   [@ EXCEPT !.status = "STARTED", !.pc = "commit",
                                             !.seen = seen,
                                             !.sel = Staged(t.org_id, selected,
                                                            Normalized(results))]]
    /\ UNCHANGED <<now, redis, rlLog, calls, redis_up, resp, dbVars, ext, lastUpsert>>

\* lines 105-130: session.commit() flushes the inserts; a unique violation is
\* raised there, outside the try block, rolls everything back and fails the
\* task, which is retried
AnalyzeCommit(i, times) ==
    /\ Running(i) /\ tasks[i].kind = "analyze" /\ tasks[i].pc = "commit"
    /\ IF UniqueViolation(sentiments, tasks[i].sel)
       THEN /\ tasks' = [tasks EXCEPT ![i] = Retry(@)]
            /\ UNCHANGED sentiments
       ELSE \E analyzed_at \in times :
               /\ sentiments' = InsertSentiments(sentiments, tasks[i].sel, analyzed_at)
               /\ tasks' = [tasks EXCEPT ![i] =
                               [@ EXCEPT !.status = "SUCCESS", !.pc = "done",
                                         !.result = Len(tasks[i].sel)]]
    /\ UNCHANGED <<now, redis, rlLog, calls, redis_up, resp, videos, comments, aggregates, keywords,
                   ext, lastUpsert, nlp, worker>>

(***************************************************************************)
(* services/aggregates.py                                                  *)
(***************************************************************************)
\* the sentiment rows of the org joined to the comments of the video
Joined(video_id, org_id) ==
    {s \in sentiments :
        /\ s.org_id = org_id
        /\ \E c \in comments : c.id = s.comment_id /\ c.video_id = video_id}

\* lines 122-141: a percentage is the pair <<numerator, denominator>> of the
\* division that gives it; 0.0 is <<0, 1>>
compute_distribution(video_id, org_id) ==
    LET joined == Joined(video_id, org_id)
        rows == {[label |-> l, count |-> Cardinality({s \in joined : s.label = l})] :
                    l \in {s.label : s \in joined}}
        sum == Cardinality(joined)
        total == IF sum = 0 THEN 1 ELSE sum
        pct(l) == IF \E r \in rows : r.label = l
                  THEN <<(CHOOSE r \in rows : r.label = l).count, total>>
                  ELSE <<0, 1>>
    IN  [pos_pct |-> pct("pos"), neg_pct |-> pct("neg"), neu_pct |-> pct("neu"),
         count |-> total]

\* the units of date_trunc that the model knows; any other is an error of the
\* database.  Timestamps are seconds since a Monday 00:00:00.
ValidWindows == {"day", "week"}

date_trunc(window, t) ==
    IF window = "day" THEN t - (t % 86400) ELSE t - (t % 604800)

\* window_start.replace(hour=23, minute=59, second=59)
EndOfDay(t) == t - (t % 86400) + 86399

RECURSIVE Ascending(_)
Ascending(S) ==
    IF S = {} THEN <<>>
    ELSE LET m == CHOOSE x \in S : \A y \in S : x <= y
         IN  <<m>> \o Ascending(S \ {m})

\* lines 52-70 and 73-86: one values dict per bucket, in bucket order
TrendValues(video_id, org_id, window) ==
    LET joined == Joined(video_id, org_id)
        buckets == Ascending({date_trunc(window, s.analyzed_at) : s \in joined})
        In(b) == {s \in joined : date_trunc(window, s.analyzed_at) = b}
        avg(b, l) == <<Cardinality({s \in In(b) : s.label = l}), Cardinality(In(b))>>
    IN  [k \in 1..Len(buckets) |->
            [org_id |-> org_id, video_id |-> video_id,
             window_start |-> buckets[k], window_end |-> EndOfDay(buckets[k]),
             pos_pct |-> avg(buckets[k], "pos"), neg_pct |-> avg(buckets[k], "neg"),
             neu_pct |-> avg(buckets[k], "neu"), count |-> Cardinality(In(buckets[k]))]]

\* an insert that leaves the stored row alone on conflict
UpsertAggregate_keep_old(as, values) ==
    LET hit == {a \in as : /\ a.org_id = values.org_id
                           /\ a.video_id = values.video_id
                           /\ a.window_start = values.window_start
                           /\ a.window_end = values.window_end}
    IN  IF hit = {} THEN as \cup {[id |-> FreshId(as)] @@ values} ELSE as

\* lines 88-96: insert, or on conflict with uq_org_video_window set the values
UpsertAggregate(as, values) ==
    LET hit == {a \in as : /\ a.org_id = values.org_id
                           /\ a.video_id = values.video_id
                           /\ a.window_start = values.window_start
                           /\ a.window_end = values.window_end}
    IN  IF hit = {}
        THEN as \cup {[id |-> FreshId(as)] @@ values}
        ELSE (as \ hit) \cup {[id |-> a.id] @@ values : a \in hit}

RECURSIVE UpsertAggregates(_, _)
UpsertAggregates(as, rows) ==
    IF rows = <<>> THEN as
    ELSE UpsertAggregates(UpsertAggregate(as, Head(rows)), Tail(rows))

\* compute_sentiment_trend_task.delay(video_id, org_id, window); video_id is
\* the value that compute_and_store_trend compares with Comment.video_id
SubmitTrend(video_id, o, window, maxTasks) ==
    /\ Len(tasks) < maxTasks
    /\ tasks' = Append(tasks, [NewTask("trend", video_id, o) EXCEPT !.window = window])
    /\ UNCHANGED <<now, redis, rlLog, calls, redis_up, resp, dbVars, ext, lastUpsert, nlp, worker>>

\* tasks/aggregate.py: the task body, one session that compute_and_store_trend
\* commits at its end; an error of the query leaves the body as an exception
compute_sentiment_trend_task(i) ==
    /\ tasks[i].kind = "trend" /\ tasks[i].pc = "queued"
    /\ LET t == tasks[i]
       IN  IF t.window \notin ValidWindows /\ Joined(t.video_id, t.org_id) # {}
           THEN /\ tasks' = [tasks EXCEPT ![i] = Retry(@)]
                /\ UNCHANGED aggregates
           ELSE LET trend == IF Joined(t.video_id, t.org_id) = {} THEN <<>>
                             ELSE TrendValues(t.video_id, t.org_id, t.window)
                IN  /\ aggregates' = UpsertAggregates(aggregates, trend)
                    /\ tasks' = [tasks EXCEPT ![i] =
                                    [@ EXCEPT !.status = "SUCCESS", !.pc = "done",
                                              !.result = Len(trend)]]
    /\ UNCHANGED <<now, redis, rlLog, calls, redis_up, resp, videos, comments, sentiments, keywords,
                   ext, lastUpsert, nlp, worker>>

\* compute_and_store_trend in two steps, as runs on two workers take them.
\* lines 52-86: the query, and the values computed from the rows it gave
TrendSelect(i) ==
    /\ tasks[i].kind = "trend" /\ tasks[i].pc = "queued"
    /\ tasks[i].window \in ValidWindows
    /\ LET t == tasks[i]
           trend == IF Joined(t.video_id, t.org_id) = {} THEN <<>>
                    ELSE TrendValues(t.video_id, t.org_id, t.window)
       IN  tasks' = [tasks EXCEPT ![i] =
                        [@ EXCEPT !.status = "STARTED", !.pc = "commit", !.sel = trend]]
    /\ UNCHANGED <<now, redis, rlLog, calls, redis_up, resp, dbVars, ext,
                   lastUpsert, nlp, worker>>

\* a commit that stores the counts of the run next to the fractions that the
\* table holds
TrendCommit_merge(i) ==
    /\ tasks[i].kind = "trend" /\ tasks[i].pc = "commit"
    /\ aggregates' =
          LET new == UpsertAggregates(aggregates, tasks[i].sel)
          IN  {IF \E b \in aggregates : b.id = a.id
               THEN [(CHOOSE b \in aggregates : b.id = a.id) EXCEPT !.count = a.count]
               ELSE a : a \in new}
    /\ tasks' = [tasks EXCEPT ![i] =
                    [@ EXCEPT !.status = "SUCCESS", !.pc = "done",
                              !.result = Len(tasks[i].sel)]]
    /\ UNCHANGED <<now, redis, rlLog, calls, redis_up, resp, videos, comments,
                   sentiments, keywords, ext, lastUpsert, nlp, worker>>

\* lines 88-99: the upserts of the run become visible with its commit; a run
\* that meets a row another run has written and not committed waits for it
TrendCommit(i) ==
    /\ tasks[i].kind = "trend" /\ tasks[i].pc = "commit"
    /\ aggregates' = UpsertAggregates(aggregates, tasks[i].sel)
    /\ tasks' = [tasks EXCEPT ![i] =
                    [@ EXCEPT !.status = "SUCCESS", !.pc = "done",
                              !.result = Len(tasks[i].sel)]]
    /\ UNCHANGED <<now, redis, rlLog, calls, redis_up, resp, videos, comments,
                   sentiments, keywords, ext, lastUpsert, nlp, worker>>

(***************************************************************************)
(* services/keywords.py                                                    *)
(***************************************************************************)
\* nltk.word_tokenize on the texts that comments have
word_tokenize(text) ==
    IF text = "The cat sat"
    THEN << <<"T", "h", "e">>, <<"c", "a", "t">>, <<"s", "a", "t">> >>
    ELSE IF text = "the cat ran"
    THEN << <<"t", "h", "e">>, <<"c", "a", "t">>, <<"r", "a", "n">> >>
    ELSE <<>>

\* the sequences of a sequence, one after the other
RECURSIVE Concat(_)
Concat(seqs) ==
    IF seqs = <<>> THEN <<>> ELSE Head(seqs) \o Concat(Tail(seqs))

\* line 61 without w.lower()
TokensOf_cased(texts) ==
    Concat([k \in 1..Len(texts) |-> word_tokenize(texts[k])])

\* line 61: the lower-cased tokens of the texts, text after text
TokensOf(texts) ==
    Concat([k \in 1..Len(texts) |->
               [j \in 1..Len(word_tokenize(texts[k])) |->
                   lower(word_tokenize(texts[k])[j])]])

\* the keys of Counter(tokens): the distinct tokens as first met
RECURSIVE Distinct(_)
Distinct(tokens) ==
    IF tokens = <<>> THEN <<>>
    ELSE LET init == Distinct(SubSeq(tokens, 1, Len(tokens) - 1))
             last == tokens[Len(tokens)]
         IN  IF \E k \in 1..Len(init) : init[k] = last THEN init ELSE Append(init, last)

\* Counter(tokens).items()
Items(tokens) ==
    LET keys == Distinct(tokens)
    IN  [k \in 1..Len(keys) |->
            [term |-> keys[k],
             count |-> Cardinality({j \in 1..Len(tokens) : tokens[j] = keys[k]})]]

\* sorted(items, key=count, reverse=True): equal counts keep their order
RECURSIVE SortedByCount(_)
SortedByCount(items) ==
    IF items = <<>> THEN <<>>
    ELSE LET init == SortedByCount(SubSeq(items, 1, Len(items) - 1))
             x == items[Len(items)]
             before == Cardinality({k \in 1..Len(init) : init[k].count >= x.count})
         IN  SubSeq(init, 1, before) \o <<x>> \o SubSeq(init, before + 1, Len(init))

\* Counter(tokens).most_common(n)
most_common(tokens, n) ==
    LET sorted == SortedByCount(Items(tokens))
    IN  IF n <= 0 THEN <<>> ELSE SubSeq(sorted, 1, Min(n, Len(sorted)))

\* an upsert that adds the count to the stored one
UpsertKeyword_add(ks, org_id, video_id, item) ==
    LET hit == {k \in ks : /\ k.org_id = org_id /\ k.video_id = video_id
                           /\ k.term = item.term}
    IN  IF hit = {}
        THEN ks \cup {[id |-> FreshId(ks), org_id |-> org_id, video_id |-> video_id,
                       term |-> item.term, count |-> item.count]}
        ELSE (ks \ hit) \cup {[k EXCEPT !.count = @ + item.count] : k \in hit}

\* lines 69-89: insert, or on conflict with uq_org_video_term set the count
UpsertKeyword(ks, org_id, video_id, item) ==
    LET hit == {k \in ks : /\ k.org_id = org_id /\ k.video_id = video_id
                           /\ k.term = item.term}
    IN  IF hit = {}
        THEN ks \cup {[id |-> FreshId(ks), org_id |-> org_id, video_id |-> video_id,
                       term |-> item.term, count |-> item.count]}
        ELSE (ks \ hit) \cup {[k EXCEPT !.count = item.count] : k \in hit}

RECURSIVE UpsertKeywords(_, _, _, _)
UpsertKeywords(ks, org_id, video_id, freq) ==
    IF freq = <<>> THEN ks
    ELSE UpsertKeywords(UpsertKeyword(ks, org_id, video_id, Head(freq)),
                        org_id, video_id, Tail(freq))

(***************************************************************************)
(* api/routes/analytics.py                                                 *)
(***************************************************************************)
\* lines 37-41 without the org filter
resolve_video_uuid_any(org_id, yt_video_id) ==
    LET rows == {v \in videos : v.yt_video_id = yt_video_id}
    IN  IF rows = {} THEN 0 ELSE (CHOOSE v \in rows : TRUE).id

\* _resolve_video_uuid: the id of the org's video, 0 when the 404 is raised
resolve_video_uuid(org_id, yt_video_id) ==
    LET rows == {v \in videos : v.org_id = org_id /\ v.yt_video_id = yt_video_id}
    IN  IF rows = {} THEN 0 ELSE (CHOOSE v \in rows : TRUE).id

Response(op, o, status, data, tokens, top_k) ==
    [n |-> resp.n + 1, op |-> op, org |-> o, status |-> status, body |-> 0,
     data |-> data, tokens |-> tokens, top_k |-> top_k]

\* GET /analytics/sentiment-trend
sentiment_trend(o, v, window, maxRequests) ==
    /\ resp.n < maxRequests
    /\ LET video_uuid == resolve_video_uuid(o, v)
       IN  IF video_uuid = 0
           THEN /\ resp' = Response("trend", o, 404, <<>>, <<>>, 0)
                /\ UNCHANGED aggregates
           ELSE IF window \notin ValidWindows /\ Joined(video_uuid, o) # {}
           THEN /\ resp' = Response("trend", o, 500, <<>>, <<>>, 0)
                /\ UNCHANGED aggregates
           ELSE LET trend == IF Joined(video_uuid, o) = {} THEN <<>>
                             ELSE TrendValues(video_uuid, o, window)
                IN  /\ aggregates' = UpsertAggregates(aggregates, trend)
                    /\ resp' = Response("trend", o, 200, trend, <<>>, 0)
    /\ UNCHANGED <<now, redis, rlLog, calls, redis_up, tasks, videos, comments, sentiments, keywords,
                   ext, lastUpsert, nlp, worker>>

\* GET /analytics/distribution
sentiment_distribution(o, v, maxRequests) ==
    /\ resp.n < maxRequests
    /\ LET video_uuid == resolve_video_uuid(o, v)
       IN  IF video_uuid = 0
           THEN resp' = Response("distribution", o, 404, <<>>, <<>>, 0)
           ELSE resp' = Response("distribution", o, 200,
                                 <<compute_distribution(video_uuid, o)>>, <<>>, 0)
    /\ UNCHANGED <<now, redis, rlLog, calls, redis_up, tasks, dbVars, ext, lastUpsert, nlp, worker>>

\* the route with a run that deletes the rows of the terms it does not return
get_keywords_pruning(o, v, top_k, maxRequests) ==
    /\ resp.n < maxRequests
    /\ LET video_uuid == resolve_video_uuid(o, v)
       IN  IF video_uuid = 0
           THEN /\ resp' = Response("keywords", o, 404, <<>>, <<>>, top_k)
                /\ UNCHANGED keywords
           ELSE \E rows \in Orderings({c \in comments : /\ c.org_id = o
                                                        /\ c.video_id = video_uuid}) :
                   LET texts == [k \in 1..Len(rows) |-> rows[k].text]
                       tokens == TokensOf(texts)
                       freq == IF tokens = <<>> THEN <<>> ELSE most_common(tokens, top_k)
                   IN  /\ keywords' = UpsertKeywords(
                                          {kw \in keywords :
                                              \/ kw.org_id # o \/ kw.video_id # video_uuid
                                              \/ \E a \in 1..Len(freq) : freq[a].term = kw.term},
                                          o, video_uuid, freq)
                       /\ resp' = Response("keywords", o, 200, freq, tokens, top_k)
    /\ UNCHANGED <<now, redis, rlLog, calls, redis_up, tasks, videos, comments, sentiments, aggregates,
                   ext, lastUpsert, nlp, worker>>

\* GET /analytics/keywords
get_keywords(o, v, top_k, maxRequests) ==
    /\ resp.n < maxRequests
    /\ LET video_uuid == resolve_video_uuid(o, v)
       IN  IF video_uuid = 0
           THEN /\ resp' = Response("keywords", o, 404, <<>>, <<>>, top_k)
                /\ UNCHANGED keywords
           ELSE \E rows \in Orderings({c \in comments : /\ c.org_id = o
                                                        /\ c.video_id = video_uuid}) :
                   LET texts == [k \in 1..Len(rows) |-> rows[k].text]
                       tokens == TokensOf(texts)
                       freq == IF tokens = <<>> THEN <<>> ELSE most_common(tokens, top_k)
                   IN  /\ keywords' = UpsertKeywords(keywords, o, video_uuid, freq)
                       /\ resp' = Response("keywords", o, 200, freq, tokens, top_k)
    /\ UNCHANGED <<now, redis, rlLog, calls, redis_up, tasks, videos, comments, sentiments, aggregates,
                   ext, lastUpsert, nlp, worker>>

\* a run that drops the sentiment rows of the video and analyzes every
\* comment again
AnalyzeRun_again(o, v, labels, times) ==
    /\ CommentsOf(o, v) # {}
    /\ \E selected \in Orderings(CommentsOf(o, v)) :
       \E results \in PipelineResults(selected, labels) :
       \E analyzed_at \in times :
          /\ worker' = LoadModel(worker)
          /\ nlp' = [texts |-> [k \in 1..Len(selected) |-> selected[k].text],
                     raw |-> results, out |-> Normalized(results)]
          /\ sentiments' = InsertSentiments(
                               {x \in sentiments :
                                   x.comment_id \notin {c.id : c \in CommentsOf(o, v)}},
                               Staged(o, selected, Normalized(results)), analyzed_at)
    /\ UNCHANGED <<now, redis, rlLog, calls, redis_up, resp, tasks, videos, comments, aggregates,
                   keywords, ext, lastUpsert>>

\* _analyze_comments run from its first to its last line with no other
\* transaction in between
AnalyzeRun(o, v, labels, times) ==
    /\ Unanalyzed(o, v) # {}
    /\ \E selected \in Orderings(Unanalyzed(o, v)) :
       \E results \in PipelineResults(selected, labels) :
       \E analyzed_at \in times :
          /\ worker' = LoadModel(worker)
          /\ nlp' = [texts |-> [k \in 1..Len(selected) |-> selected[k].text],
                     raw |-> results, out |-> Normalized(results)]
          /\ sentiments' = InsertSentiments(sentiments,
                                            Staged(o, selected, Normalized(results)),
                                            analyzed_at)
    /\ UNCHANGED <<now, redis, rlLog, calls, redis_up, resp, tasks, videos, comments, aggregates,
                   keywords, ext, lastUpsert>>

(***************************************************************************)
(* POST /ingest                                                            *)
(***************************************************************************)
\* the route with the task enqueued before the rate limit is looked at
ingest_video_enqueue_first(o, v) ==
    /\ resp.n < MaxCalls
    /\ check_rate_limit(o)
    /\ tasks' = Append(tasks, NewTask("fetch", v, o))
    /\ resp' = [n |-> resp.n + 1, op |-> "ingest", org |-> o,
                status |-> IF Allowed(o) THEN 200 ELSE 429,
                body |-> IF Allowed(o) THEN Len(tasks) + 1 ELSE 0]
    /\ UNCHANGED <<now, calls, redis_up, dbVars, ext, lastUpsert, nlp, worker>>

\* ingest_video(video_id, current_user), current_user.org_id = o
ingest_video(o, v) ==
    /\ resp.n < MaxCalls
    /\ IF hgetall_raises
       THEN /\ resp' = [n |-> resp.n + 1, op |-> "ingest", org |-> o,
                        status |-> 500, body |-> 0, data |-> <<>>,
                        tokens |-> <<>>, top_k |-> 0]
            /\ UNCHANGED <<redis, rlLog, tasks>>
       ELSE /\ check_rate_limit(o)
            /\ IF ~Allowed(o)
               THEN /\ resp' = [n |-> resp.n + 1, op |-> "ingest", org |-> o,
                                status |-> 429, body |-> 0, data |-> <<>>,
                                tokens |-> <<>>, top_k |-> 0]
                    /\ UNCHANGED tasks
               ELSE /\ tasks' = Append(tasks, NewTask("fetch", v, o))
                    /\ resp' = [n |-> resp.n + 1, op |-> "ingest", org |-> o,
                                status |-> 200, body |-> Len(tasks) + 1, data |-> <<>>,
                                tokens |-> <<>>, top_k |-> 0]
    /\ UNCHANGED <<now, calls, redis_up, dbVars, ext, lastUpsert, nlp, worker>>

\* time passes; Redis drops the keys whose TTL has run out
Tick(d) ==
    /\ now + d <= MaxTime
    /\ now' = now + d
    /\ redis' = [o \in Orgs |->
                    IF redis[o].present /\ now + d >= redis[o].expire_at
                    THEN NoBucket ELSE redis[o]]
    /\ UNCHANGED <<rlLog, calls, redis_up, resp, tasks, dbVars, ext, lastUpsert, nlp, worker>>

\* the Redis server stops being reachable, and is reachable again; the keys
\* it holds are kept
redis_outage ==
    /\ redis_up' = ~redis_up
    /\ UNCHANGED <<now, redis, rlLog, calls, resp, tasks, dbVars, ext, lastUpsert,
                   nlp, worker>>

\* what the result backend holds for the task: the start of an attempt is not
\* recorded (task_track_started is off), so a running task still shows the
\* state it was queued in
BackendStatus(t) ==
    IF t.status = "STARTED"
    THEN (IF t.retries > 0 THEN "RETRY" ELSE "PENDING")
    ELSE t.status

\* GET /ingest/status/{task_id}; body is the task id
get_task_status(i, maxRequests) ==
    /\ resp.n < maxRequests
    /\ resp' = [n |-> resp.n + 1, op |-> "status", org |-> NULL, status |-> 200,
                body |-> i,
                data |-> <<[status |-> BackendStatus(tasks[i]),
                            result |-> tasks[i].result]>>,
                tokens |-> <<>>, top_k |-> 0]
    /\ UNCHANGED <<now, redis, rlLog, calls, redis_up, tasks, dbVars, ext, lastUpsert, nlp, worker>>

\* GET /ingest/status/{task_id} requested by a user of org o: the route
\* has no current_user and looks at the task id alone
get_task_status_by(o, i, maxRequests) ==
    /\ resp.n < maxRequests
    /\ resp' = [n |-> resp.n + 1, op |-> "status", org |-> o, status |-> 200,
                body |-> i,
                data |-> <<[status |-> BackendStatus(tasks[i]),
                            result |-> tasks[i].result]>>,
                tokens |-> <<>>, top_k |-> 0]
    /\ UNCHANGED <<now, redis, rlLog, calls, redis_up, tasks, dbVars, ext, lastUpsert, nlp, worker>>

NoResp == [n |-> 0, op |-> NULL, org |-> NULL, status |-> 0, body |-> 0,
           data |-> <<>>, tokens |-> <<>>, top_k |-> 0]
NoUpsert == [org_id |-> NULL, video_id |-> 0, batch |-> <<>>, met |-> {}]
NoNlp == [texts |-> <<>>, raw |-> <<>>, out |-> <<>>]

InitCommon ==
    /\ now = 0
    /\ redis = [o \in Orgs |-> NoBucket]
    /\ rlLog = [o \in Orgs |-> <<>>]
    /\ calls = <<>>
    /\ redis_up = TRUE
    /\ resp = NoResp
    /\ tasks = <<>>
    /\ videos = {}
    /\ comments = {}
    /\ sentiments = {}
    /\ aggregates = {}
    /\ keywords = {}
    /\ lastUpsert = NoUpsert
    /\ worker = NoModel

InitRate == InitCommon /\ nlp = NoNlp /\ ext = [v \in ExtVideos |-> <<>>]

NextRate ==
    \/ \E d \in Deltas : Tick(d)
    \/ \E o \in RateOrgs, v \in ExtVideos : ingest_video(o, v)

SpecRate == InitRate /\ [][NextRate]_vars

\* bounds of the ingestion specifications
MaxTasks == 2
MaxFailures == 1

InitIngest == InitCommon /\ nlp = NoNlp /\ ext \in [ExtVideos -> ExtStates]

NextIngest ==
    \/ \E o \in Orgs, v \in ExtVideos : Submit("fetch", v, o, MaxTasks)
    \/ \E i \in 1..Len(tasks) : FetchMeta(i, 1)
    \/ \E i \in 1..Len(tasks) : FetchUpsertVideo(i)
    \/ \E i \in 1..Len(tasks) : FetchPage(i)
    \/ \E i \in 1..Len(tasks) : FetchUpsertPage(i)
    \/ \E i \in 1..Len(tasks) : FetchFinish(i)
    \/ \E i \in 1..Len(tasks) : TaskFail(i, MaxFailures)

SpecIngest == InitIngest /\ [][NextIngest]_vars

RECURSIVE UpsertPages(_, _, _, _)
UpsertPages(cs, org_id, video_pk, pages) ==
    IF pages = <<>> THEN cs
    ELSE UpsertPages(UpsertRows(cs, org_id, video_pk, BatchWithDefaults(Head(pages))),
                     org_id, video_pk, Tail(pages))

\* the tables after one run of _fetch_comments that does not fail, started on
\* the tables db = <<videos, comments>>
SingleRun(db, org_id, video_id) ==
    LET vs == upsert_video(db[1], org_id, video_id, fetch_video_metadata(video_id))
    IN  <<vs, UpsertPages(db[2], org_id, VideoPk(vs, org_id, video_id),
                          ext[video_id].pages)>>

\* _fetch_comments run from its first to its last line without an error
RECURSIVE LastUpsertOf(_, _, _, _, _)
LastUpsertOf(cs, org_id, video_pk, pages, last) ==
    IF pages = <<>> THEN last
    ELSE LET batch == BatchWithDefaults(Head(pages))
         IN  LastUpsertOf(UpsertRows(cs, org_id, video_pk, batch), org_id, video_pk,
                          Tail(pages),
                          [org_id |-> org_id, video_id |-> video_pk, batch |-> batch,
                           met |-> {r \in cs : /\ r.org_id = org_id
                                               /\ \E k \in 1..Len(batch) :
                                                    batch[k].yt_comment_id = r.yt_comment_id}])

IngestRun(o, v) ==
    LET after == SingleRun(<<videos, comments>>, o, v)
    IN  /\ videos' = after[1]
        /\ comments' = after[2]
        /\ lastUpsert' = LastUpsertOf(comments, o, VideoPk(after[1], o, v),
                                      ext[v].pages, lastUpsert)
        /\ UNCHANGED <<now, redis, rlLog, calls, redis_up, resp, tasks, sentiments, aggregates,
                       keywords, ext, nlp, worker>>

\* texts given to analyze_batch
Texts == {"The cat sat", "the cat ran"}
MaxBatch == 3

\* the texts of the call are drawn when the behaviour starts
InitNlp ==
    /\ InitCommon
    /\ ext = [v \in ExtVideos |-> <<>>]
    /\ \E n \in 1..MaxBatch : \E texts \in [1..n -> Texts] :
          nlp = [texts |-> texts, raw |-> <<>>, out |-> <<>>]

NextNlp ==
    \/ analyze_batch(RawLabels)
    \/ load_model
    \/ \E n \in 1..MaxBatch : \E texts \in [1..n -> Texts] : next_texts(texts)

SpecNlp == InitNlp /\ [][NextNlp]_vars

\* the source as analysis finds it: no comment, one page, or the two pages of
\* one comment each that fetch_comments gives
StubPages ==
    {<<>>,
     << <<CommentVersion("yt1_c0", 1)>> >>,
     << <<CommentVersion("yt1_c0", 1)>>, <<CommentVersion("yt1_c1", 2)>> >>}

InitAnalyze == InitCommon /\ nlp = NoNlp /\ ext \in [ExtVideos -> [meta : ExtMeta, pages : StubPages]]

\* the org whose comments are analyzed; the other org only ingests
AnalyzeOrgs == {"o1"}

NextAnalyze ==
    \/ \E o \in Orgs, v \in ExtVideos : IngestRun(o, v)
    \/ \E o \in AnalyzeOrgs, v \in ExtVideos : Submit("analyze", v, o, MaxTasks)
    \/ \E i \in 1..Len(tasks) : AnalyzeSelect(i, 2, BinaryLabels)
    \/ \E i \in 1..Len(tasks) : AnalyzeCommit(i, {5})

SpecAnalyze == InitAnalyze /\ [][NextAnalyze]_vars

\* bounds and inputs of the analytics specification
MaxRequests == 1
TopKs == {0, 3, 5}
Windows == {"day", "week", "daily"}
Times == {18000}

InitAnalytics == InitAnalyze

NextAnalytics ==
    \/ \E o \in Orgs, v \in ExtVideos : IngestRun(o, v)
    \/ \E o \in AnalyzeOrgs, v \in ExtVideos : AnalyzeRun(o, v, CommonLabels, Times)
    \/ \E o \in Orgs, v \in ExtVideos, w \in Windows : sentiment_trend(o, v, w, MaxRequests)
    \/ \E o \in Orgs, v \in ExtVideos : sentiment_distribution(o, v, MaxRequests)
    \/ \E o \in Orgs, v \in ExtVideos, k \in TopKs : get_keywords(o, v, k, MaxRequests)

SpecAnalytics == InitAnalytics /\ [][NextAnalytics]_vars

\* ingestion requests while the Redis server comes and goes
NextOutage ==
    \/ \E d \in {12, KEY_TTL} : Tick(d)
    \/ \E o \in RateOrgs, v \in ExtVideos : ingest_video(o, v)
    \/ redis_outage

SpecOutage == InitRate /\ [][NextOutage]_vars

\* requests of one tenant whose check_rate_limit calls interleave, at most
\* MaxInFlight of them at a time
MaxInFlight == 2

NextRace ==
    \/ Tick(KEY_TTL)
    \/ \E o \in RateOrgs : RlRead(o, MaxCalls, MaxInFlight)
    \/ \E i \in 1..Len(calls) : RlHSet(i)
    \/ \E i \in 1..Len(calls) : RlExpire(i)

SpecRace == InitRate /\ [][NextRace]_vars

\* trend tasks for the videos that are stored, next to ingestion and analysis
NextTrend ==
    \/ \E o \in AnalyzeOrgs, v \in ExtVideos : IngestRun(o, v)
    \/ \E o \in AnalyzeOrgs, v \in ExtVideos : AnalyzeRun(o, v, BinaryLabels, Times)
    \/ \E r \in videos, w \in {"day", "daily"} : SubmitTrend(r.id, r.org_id, w, MaxTasks)
    \/ \E i \in 1..Len(tasks) : compute_sentiment_trend_task(i)

SpecTrend == InitAnalytics /\ [][NextTrend]_vars

\* a further page of comments appears at the source
source_adds_page(v) ==
    /\ \E pages \in StubPages :
          /\ Len(pages) = Len(ext[v].pages) + 1
          /\ SubSeq(pages, 1, Len(ext[v].pages)) = ext[v].pages
          /\ ext' = [ext EXCEPT ![v].pages = pages]
    /\ UNCHANGED <<now, redis, rlLog, calls, redis_up, resp, tasks, dbVars,
                   lastUpsert, nlp, worker>>

\* trend requests, one after the other, while comments arrive and are
\* analyzed on two days
MaxRuns == 2
AggTimes == {18000, 104400}

NextAgg ==
    \/ \E v \in ExtVideos : source_adds_page(v)
    \/ \E o \in AnalyzeOrgs, v \in ExtVideos : IngestRun(o, v)
    \/ \E o \in AnalyzeOrgs, v \in ExtVideos : AnalyzeRun(o, v, CommonLabels, AggTimes)
    \/ \E o \in AnalyzeOrgs, v \in ExtVideos, w \in ValidWindows :
          sentiment_trend(o, v, w, MaxRuns)

SpecAgg == InitAnalytics /\ [][NextAgg]_vars

\* trend runs for one video and window on two workers, while comments arrive
\* and are analyzed
NextTrendRace ==
    \/ \E v \in ExtVideos : source_adds_page(v)
    \/ \E o \in AnalyzeOrgs, v \in ExtVideos : IngestRun(o, v)
    \/ \E o \in AnalyzeOrgs, v \in ExtVideos : AnalyzeRun(o, v, BinaryLabels, Times)
    \/ \E r \in videos : SubmitTrend(r.id, r.org_id, "day", MaxTasks)
    \/ \E i \in 1..Len(tasks) : TrendSelect(i)
    \/ \E i \in 1..Len(tasks) : TrendCommit(i)

SpecTrendRace == InitAnalytics /\ [][NextTrendRace]_vars

\* the comments of the source as keyword runs find them: a comment, the
\* comment edited, the comment and a second one
KeywordPages ==
    {<< <<CommentVersion("yt1_c0", 1)>> >>,
     << <<CommentVersion("yt1_c0", 2)>> >>,
     << <<CommentVersion("yt1_c0", 1)>>, <<CommentVersion("yt1_c1", 2)>> >>}

\* comments are edited or added at the source
source_changes(v, pages) ==
    /\ ext[v].pages # pages
    /\ ext' = [ext EXCEPT ![v].pages = pages]
    /\ UNCHANGED <<now, redis, rlLog, calls, redis_up, resp, tasks, dbVars,
                   lastUpsert, nlp, worker>>

\* keyword requests, one after the other, between ingestion runs
NextKeywords ==
    \/ \E v \in ExtVideos, pages \in KeywordPages : source_changes(v, pages)
    \/ \E o \in AnalyzeOrgs, v \in ExtVideos : IngestRun(o, v)
    \/ \E o \in AnalyzeOrgs, v \in ExtVideos, k \in {1, 3} : get_keywords(o, v, k, MaxRuns)

SpecKeywords == InitAnalytics /\ [][NextKeywords]_vars

\* ingestion, analysis, trend and keyword runs while comments are edited and
\* added at the source
NextFrame ==
    \/ \E v \in ExtVideos, pages \in KeywordPages : source_changes(v, pages)
    \/ \E o \in AnalyzeOrgs, v \in ExtVideos : IngestRun(o, v)
    \/ \E o \in AnalyzeOrgs, v \in ExtVideos : AnalyzeRun(o, v, BinaryLabels, Times)
    \/ \E o \in AnalyzeOrgs, v \in ExtVideos : sentiment_trend(o, v, "day", MaxRuns)
    \/ \E o \in AnalyzeOrgs, v \in ExtVideos : get_keywords(o, v, 3, MaxRuns)

SpecFrame == InitAnalytics /\ [][NextFrame]_vars

\* check_rate_limit calls of one tenant, one after the other, as time passes
NextSeq ==
    \/ \E d \in Deltas : Tick(d)
    \/ \E o \in RateOrgs : RlCall(o, MaxCalls)

SpecSeq == InitRate /\ [][NextSeq]_vars

\* ingestion tasks of two tenants, and status requests of their users
NextStatus ==
    \/ \E o \in Orgs, v \in ExtVideos : Submit("fetch", v, o, MaxTasks)
    \/ \E i \in 1..Len(tasks) : FetchMeta(i, 1)
    \/ \E i \in 1..Len(tasks) : FetchUpsertVideo(i)
    \/ \E i \in 1..Len(tasks) : FetchPage(i)
    \/ \E i \in 1..Len(tasks) : FetchUpsertPage(i)
    \/ \E i \in 1..Len(tasks) : FetchFinish(i)
    \/ \E o \in Orgs, i \in 1..Len(tasks) : get_task_status_by(o, i, MaxRequests)

SpecStatus == InitAnalytics /\ [][NextStatus]_vars

\* one ingestion task whose body may raise on every attempt, on a worker that
\* keeps taking the steps it can take
NextRetry ==
    \/ \E o \in Orgs, v \in ExtVideos : Submit("fetch", v, o, 1)
    \/ \E i \in 1..Len(tasks) : FetchMeta(i, 1)
    \/ \E i \in 1..Len(tasks) : FetchUpsertVideo(i)
    \/ \E i \in 1..Len(tasks) : FetchPage(i)
    \/ \E i \in 1..Len(tasks) : FetchUpsertPage(i)
    \/ \E i \in 1..Len(tasks) : FetchFinish(i)
    \/ \E i \in 1..Len(tasks) : TaskFail(i, MAX_RETRIES + 1)
    \/ \E i \in 1..Len(tasks) : get_task_status(i, MaxRequests)

FairRetry ==
    /\ WF_vars(\E i \in 1..Len(tasks) : FetchMeta(i, 1))
    /\ WF_vars(\E i \in 1..Len(tasks) : FetchUpsertVideo(i))
    /\ WF_vars(\E i \in 1..Len(tasks) : FetchPage(i))
    /\ WF_vars(\E i \in 1..Len(tasks) : FetchUpsertPage(i))
    /\ WF_vars(\E i \in 1..Len(tasks) : FetchFinish(i))

SpecRetry == InitIngest /\ [][NextRetry]_vars /\ FairRetry

\* the metadata that the source may give for the video at different times
Metas == ExtMeta \cup {[title |-> "New title", channel_id |-> "new_channel"]}

\* the title or channel of the video changes at the source
retitle(v, meta) ==
    /\ ext[v].meta # meta
    /\ ext' = [ext EXCEPT ![v].meta = meta]
    /\ UNCHANGED <<now, redis, rlLog, calls, redis_up, resp, tasks, dbVars, lastUpsert, nlp, worker>>

InitVideo ==
    /\ InitCommon /\ nlp = NoNlp
    /\ ext \in [ExtVideos -> [meta : ExtMeta,
                              pages : {<<>>, << <<CommentVersion("yt1_c0", 1)>> >>}]]

\* ingestion runs on two workers while the metadata changes
NextVideo ==
    \/ \E o \in Orgs, v \in ExtVideos : Submit("fetch", v, o, MaxTasks)
    \/ \E i \in 1..Len(tasks) : FetchMeta(i, 2)
    \/ \E i \in 1..Len(tasks) : FetchUpsertVideo(i)
    \/ \E i \in 1..Len(tasks) : FetchPage(i)
    \/ \E i \in 1..Len(tasks) : FetchUpsertPage(i)
    \/ \E i \in 1..Len(tasks) : FetchFinish(i)
    \/ \E v \in ExtVideos, meta \in Metas : retitle(v, meta)

SpecVideo == InitVideo /\ [][NextVideo]_vars

(***************************************************************************)
(* Properties of the rate-limiter specification                            *)
(***************************************************************************)
\* 1 / RATE_LIMIT_REFILL_RATE, in seconds
RefillWait == RATE_LIMIT_REFILL_DEN \div RATE_LIMIT_REFILL_NUM

SameInstant(L, n) == \A k \in 1..n : L[k].t = L[1].t

\* the calls of the log: capacity + 1 calls at one instant, then two calls
\* 1/refill_rate later
BoundaryScenario(L, n) ==
    /\ Len(L) >= n
    /\ SameInstant(L, Min(n, RATE_LIMIT_MAX_TOKENS + 1))
    /\ \A k \in (RATE_LIMIT_MAX_TOKENS + 2)..n : L[k].t = L[1].t + RefillWait

\* C1: starting with no bucket and with no time between the calls, the first
\* RATE_LIMIT_MAX_TOKENS calls are allowed and the next one is denied; the
\* call made 1/refill_rate later is allowed and the one right after it denied.
C1_TokenBucketBoundary ==
    \A o \in Orgs :
        LET L == rlLog[o]
        IN  /\ \A n \in 1..(RATE_LIMIT_MAX_TOKENS + 1) :
                  BoundaryScenario(L, n) => (L[n].allowed <=> n <= RATE_LIMIT_MAX_TOKENS)
            /\ BoundaryScenario(L, RATE_LIMIT_MAX_TOKENS + 2)
                  => L[RATE_LIMIT_MAX_TOKENS + 2].allowed
            /\ BoundaryScenario(L, RATE_LIMIT_MAX_TOKENS + 3)
                  => ~L[RATE_LIMIT_MAX_TOKENS + 3].allowed

\* all the calls of the scenario have been made
C1_Witness ==
    \E o \in Orgs : BoundaryScenario(rlLog[o], RATE_LIMIT_MAX_TOKENS + 3)

\* the step is a check_rate_limit call for org o that denies
Denied(o) ==
    /\ rlLog'[o] # rlLog[o]
    /\ ~rlLog'[o][Len(rlLog'[o])].allowed

\* C7: a denied ingestion request enqueues no task, leaves every table as it
\* is and is answered with 429.
C7_DeniedNoSideEffects ==
    [][\A o \in Orgs :
          Denied(o) => /\ tasks' = tasks
                       /\ UNCHANGED dbVars
                       /\ resp'.n = resp.n + 1
                       /\ resp'.op = "ingest" /\ resp'.org = o /\ resp'.status = 429]_vars

\* a request has been denied after others were admitted and enqueued
C7_Witness ==
    /\ resp.op = "ingest" /\ resp.status = 429
    /\ Len(tasks) >= RATE_LIMIT_MAX_TOKENS
    /\ \E o \in Orgs : rlLog[o] # <<>> /\ ~rlLog[o][Len(rlLog[o])].allowed

(***************************************************************************)
(* Properties of the ingestion specification                               *)
(***************************************************************************)
CommentRows(org_id, yt_comment_id) ==
    {r \in comments : r.org_id = org_id /\ r.yt_comment_id = yt_comment_id}

\* C2: after upsert_comments(B2), whatever batch with the same external ids
\* was applied before, there is exactly one Comment row per (org_id,
\* yt_comment_id) of the batch, and its author, text, published_at, like_count
\* and parent_id are the values given in B2 (like_count 0 when B2 gives none).
C2_UpsertIdempotent ==
    /\ \A r1 \in comments, r2 \in comments :
          (r1.org_id = r2.org_id /\ r1.yt_comment_id = r2.yt_comment_id) => r1 = r2
    /\ \A k \in 1..Len(lastUpsert.batch) :
          LET c == lastUpsert.batch[k]
              rows == CommentRows(lastUpsert.org_id, c.yt_comment_id)
          IN  /\ Cardinality(rows) = 1
              /\ \A r \in rows :
                    /\ r.author = c.author
                    /\ r.text = c.text
                    /\ r.published_at = c.published_at
                    /\ r.like_count = c.like_count
                    /\ r.parent_id = c.parent_id

\* a second batch with the same external id and other values has been applied
C2_Witness ==
    \E k \in 1..Len(lastUpsert.batch), old \in lastUpsert.met :
        /\ old.yt_comment_id = lastUpsert.batch[k].yt_comment_id
        /\ old.text # lastUpsert.batch[k].text
        /\ old.like_count # lastUpsert.batch[k].like_count
        /\ \E r \in comments : r.id = old.id /\ r.text = lastUpsert.batch[k].text

\* the external video id of the Video row a comment points to
VideoOf(vs, video_pk) ==
    IF \E r \in vs : r.id = video_pk
    THEN (CHOOSE r \in vs : r.id = video_pk).yt_video_id
    ELSE NULL

\* the Video and Comment rows of one org without their surrogate keys, and
\* how many rows there are
RowsOf(vs, cs, o, withTouch) ==
    [nvideos |-> Cardinality({r \in vs : r.org_id = o}),
     ncomments |-> Cardinality({r \in cs : r.org_id = o}),
     videos |-> {[yt_video_id |-> r.yt_video_id, title |-> r.title,
                  channel_id |-> r.channel_id,
                  last_analyzed_at |-> IF withTouch THEN r.last_analyzed_at ELSE NULL] :
                     r \in {x \in vs : x.org_id = o}},
     comments |-> {[video |-> VideoOf(vs, r.video_id), yt_comment_id |-> r.yt_comment_id,
                    author |-> r.author, text |-> r.text,
                    published_at |-> r.published_at, like_count |-> r.like_count,
                    parent_id |-> r.parent_id] :
                     r \in {x \in cs : x.org_id = o}}]

SucceedsAfterRetry(i) ==
    /\ i <= Len(tasks)
    /\ tasks[i].kind = "fetch"
    /\ tasks[i].status = "STARTED" /\ tasks[i].retries > 0
    /\ tasks'[i].status = "SUCCESS"

PrefixAnyCase(raw, small, capital) ==
    Len(raw) >= 3 /\ \A k \in 1..3 : raw[k] \in {small[k], capital[k]}

ExpectedLabel(raw) ==
    IF PrefixAnyCase(raw, <<"p", "o", "s">>, <<"P", "O", "S">>) THEN "pos"
    ELSE IF PrefixAnyCase(raw, <<"n", "e", "g">>, <<"N", "E", "G">>) THEN "neg"
    ELSE "neu"

Pending(o, v) ==
    {c \in comments :
        /\ c.org_id = o
        /\ \E w \in videos : w.id = c.video_id /\ w.yt_video_id = v
        /\ ~ \E s \in sentiments : s.org_id = o /\ s.comment_id = c.id}

\* C4: when a run of _analyze_comments succeeds and nothing was ingested for
\* its video since it selected, no comment of the video is left without a
\* sentiment row; and a run that starts when none is left selects nothing,
\* inserts nothing and returns comments_analyzed = 0.  A second run right
\* after a first one therefore leaves the rows of the first as they are.
C4_SecondRunAnalyzesNothing ==
    [][\A i \in 1..Len(tasks) :
          LET t == tasks[i]
              u == tasks'[i]
          IN  t.kind = "analyze" /\ Len(tasks') = Len(tasks) =>
                /\ (t.pc = "queued" /\ u.pc # "queued" /\ Pending(t.org_id, t.video_id) = {})
                      => /\ u.status = "SUCCESS" /\ u.result = 0
                         /\ sentiments' = sentiments
                /\ (t.status # "SUCCESS" /\ u.status = "SUCCESS"
                      /\ u.seen = {c.id : c \in CommentsOf(t.org_id, t.video_id)})
                      => Pending(t.org_id, t.video_id)' = {}]_vars

C4_Witness ==
    \E i, j \in 1..Len(tasks) :
        /\ i # j
        /\ tasks[i].kind = "analyze" /\ tasks[j].kind = "analyze"
        /\ tasks[i].org_id = tasks[j].org_id /\ tasks[i].video_id = tasks[j].video_id
        /\ tasks[i].status = "SUCCESS" /\ tasks[j].status = "SUCCESS"
        /\ tasks[i].retries = 0 /\ tasks[j].retries = 0
        /\ tasks[i].result = 2 /\ tasks[j].result = 0
        /\ tasks[i].seen = tasks[j].seen
        /\ Cardinality(sentiments) = 2

\* C5: in every reachable state, also with several analysis tasks of one
\* video and org running at once and being retried, no two CommentSentiment
\* rows have the same (org_id, comment_id).
C5_OneSentimentPerComment ==
    \A s1, s2 \in sentiments :
        (s1.org_id = s2.org_id /\ s1.comment_id = s2.comment_id) => s1 = s2

\* two tasks selected the same comments, one committed, the other was
\* refused at commit, retried and found nothing left
C5_Witness ==
    \E i, j \in 1..Len(tasks) :
        /\ i # j
        /\ tasks[i].kind = "analyze" /\ tasks[j].kind = "analyze"
        /\ tasks[i].org_id = tasks[j].org_id /\ tasks[i].video_id = tasks[j].video_id
        /\ tasks[i].status = "SUCCESS" /\ tasks[i].result > 0
        /\ tasks[j].status = "SUCCESS" /\ tasks[j].retries > 0 /\ tasks[j].result = 0
        /\ sentiments # {}


(***************************************************************************)
(* Properties of the analytics specification                               *)
(***************************************************************************)
\* the step is the serving of an analytics request of this kind
Served(op) == resp'.n = resp.n + 1 /\ resp'.op = op

\* the org has a video row for the external id that requests name
Owns(o) == \E w \in videos : w.org_id = o /\ w.yt_video_id \in ExtVideos

\* the comments of the org on its video
OwnComments(o) ==
    {c \in comments :
        /\ c.org_id = o
        /\ \E w \in videos : w.org_id = o /\ w.id = c.video_id
                             /\ w.yt_video_id \in ExtVideos}

\* the sentiment rows of the org on the comments of its video
OwnSentiments(o) ==
    {x \in sentiments : x.org_id = o /\ \E c \in OwnComments(o) : c.id = x.comment_id}

\* C3: a trend, distribution or keywords request of an org that owns no video
\* with the requested external id, whoever else owns one, is answered 404 with
\* no data, and no table is written.
C3_OtherTenantNotFound ==
    [][(/\ \/ Served("trend") \/ Served("distribution") \/ Served("keywords")
        /\ ~Owns(resp'.org))
          => /\ resp'.status = 404
             /\ resp'.data = <<>> /\ resp'.tokens = <<>>
             /\ dbVars' = dbVars]_vars

C3_Witness ==
    /\ resp.op = "distribution" /\ resp.org = "o2" /\ resp.status = 404
    /\ ~Owns("o2") /\ Owns("o1")
    /\ Cardinality(OwnSentiments("o1")) = 2

\* C6: when the org has at least one sentiment row on the video, the three
\* percentages of compute_distribution add up to 1: the counts of the pos, neg
\* and neu rows add up to the returned count, which is the number of rows;
\* every sentiment row has one of the three labels.
C6_DistributionSumsToOne ==
    [][(Served("distribution") /\ OwnSentiments(resp'.org) # {})
          => /\ resp'.status = 200
             /\ \A x \in sentiments : x.label \in {"pos", "neg", "neu"}
             /\ LET d == resp'.data[1]
                    p == d.pos_pct
                    q == d.neg_pct
                    r == d.neu_pct
                IN  /\ p[1] * q[2] * r[2] + q[1] * p[2] * r[2] + r[1] * p[2] * q[2]
                         = p[2] * q[2] * r[2]
                    /\ d.count = Cardinality(OwnSentiments(resp'.org))
                    /\ \A l \in {"pos", "neg", "neu"} :
                          LET n == Cardinality({x \in OwnSentiments(resp'.org) : x.label = l})
                              f == IF l = "pos" THEN p ELSE IF l = "neg" THEN q ELSE r
                          IN  f[1] * d.count = n * f[2]]_vars

C6_Witness ==
    /\ resp.op = "distribution" /\ resp.status = 200 /\ resp.org = "o1"
    /\ Cardinality(OwnSentiments("o1")) = 2
    /\ resp.data[1].count = 2
    /\ resp.data[1].pos_pct = <<1, 2>> /\ resp.data[1].neg_pct = <<0, 1>>
    /\ resp.data[1].neu_pct = <<1, 2>>

\* how often the term is a lower-cased token of the comments
RECURSIVE Occurrences(_, _)
Occurrences(cs, term) ==
    IF cs = {} THEN 0
    ELSE LET c == CHOOSE x \in cs : TRUE
             ws == word_tokenize(c.text)
         IN  Cardinality({k \in 1..Len(ws) : lower(ws[k]) = term})
             + Occurrences(cs \ {c}, term)

\* the lower-cased tokens of the comments
AllTerms(cs) ==
    UNION {{lower(word_tokenize(c.text)[k]) : k \in 1..Len(word_tokenize(c.text))} :
              c \in cs}

FirstIndex(toks, term) ==
    CHOOSE j \in 1..Len(toks) : toks[j] = term /\ \A i \in 1..(j - 1) : toks[i] # term

\* C9: compute_and_store_keywords returns min(top_k, number of terms) terms,
\* no more than top_k; each is a lower-cased token of the comments of the org
\* and video with its frequency over all of them, which is at least 1; the
\* list is in descending count order, equal counts in the order of first
\* occurrence in the token stream; no omitted term is more frequent than a
\* returned one; every returned term is stored with its count, every stored
\* count is at least 1; with no tokens the result is empty and nothing is
\* written.
C9_TopKeywords ==
    [][(Served("keywords") /\ resp'.status = 200)
          => LET r == resp'.data
                 toks == resp'.tokens
                 cs == OwnComments(resp'.org)
                 Returned == {r[a].term : a \in 1..Len(r)}
             IN  /\ Len(r) <= resp'.top_k
                 /\ Len(r) = Min(resp'.top_k, Cardinality(AllTerms(cs)))
                 /\ \A t \in AllTerms(cs) :
                       Cardinality({j \in 1..Len(toks) : toks[j] = t}) = Occurrences(cs, t)
                 /\ \A j \in 1..Len(toks) : toks[j] \in AllTerms(cs)
                 /\ \A a \in 1..Len(r) :
                       /\ r[a].term \in AllTerms(cs)
                       /\ r[a].count = Occurrences(cs, r[a].term)
                       /\ r[a].count >= 1
                       /\ \E kw \in keywords' :
                             /\ kw.org_id = resp'.org /\ kw.term = r[a].term
                             /\ kw.count = r[a].count
                             /\ \E c \in cs : c.video_id = kw.video_id
                 /\ \A a, b \in 1..Len(r) :
                       a < b => \/ r[a].count > r[b].count
                                \/ /\ r[a].count = r[b].count
                                   /\ FirstIndex(toks, r[a].term) < FirstIndex(toks, r[b].term)
                 /\ \A t \in AllTerms(cs) \ Returned :
                       \A a \in 1..Len(r) : r[a].count >= Occurrences(cs, t)
                 /\ \A kw \in keywords' : kw.count >= 1
                 /\ AllTerms(cs) = {} => r = <<>> /\ keywords' = keywords]_vars

\* "The cat sat" was read after "the cat ran": the and cat twice, then ran,
\* which was met before sat; sat is left out
C9_Witness ==
    /\ resp.op = "keywords" /\ resp.status = 200 /\ resp.top_k = 3
    /\ Len(resp.tokens) = 6
    /\ Len(resp.data) = 3
    /\ resp.data[1] = [term |-> <<"t", "h", "e">>, count |-> 2]
    /\ resp.data[2] = [term |-> <<"c", "a", "t">>, count |-> 2]
    /\ resp.data[3] = [term |-> <<"r", "a", "n">>, count |-> 1]
    /\ \E kw \in keywords : kw.term = <<"r", "a", "n">> /\ kw.count = 1
    /\ \A kw \in keywords : kw.term # <<"s", "a", "t">>


(***************************************************************************)
(* Properties of the retry specification                                   *)
(***************************************************************************)
Terminal == {"SUCCESS", "FAILURE"}

\* C11: every enqueued ingestion task eventually is in a terminal state; no
\* task is retried more than max_retries = 5 times; a task ends in FAILURE
\* only after its 5 retries, and stays there; get_task_status reports the
\* terminal state of the task it is asked about.
C11_TasksTerminate ==
    /\ (Len(tasks) >= 1) ~> (Len(tasks) >= 1 /\ tasks[1].status \in Terminal)
    /\ [](\A i \in 1..Len(tasks) :
             /\ tasks[i].retries <= MAX_RETRIES
             /\ tasks[i].status = "FAILURE" => tasks[i].retries = MAX_RETRIES)
    /\ [][\A i \in 1..Len(tasks) :
             /\ tasks[i].status \in Terminal => tasks'[i] = tasks[i]
             /\ (resp'.n = resp.n + 1 /\ resp'.op = "status" /\ resp'.body = i
                   /\ tasks[i].status \in Terminal)
                  => resp'.data[1].status = tasks[i].status]_vars

C11_Witness ==
    /\ Len(tasks) = 1
    /\ tasks[1].status = "FAILURE" /\ tasks[1].retries = MAX_RETRIES
    /\ resp.op = "status" /\ resp.body = 1 /\ resp.data[1].status = "FAILURE"


(***************************************************************************)
(* Properties of the model singleton                                       *)
(***************************************************************************)
\* C12: in one worker process, whatever _load_model and analyze_batch calls
\* were made, pipeline(...) was called at most once, the last call returned
\* the instance that exists, and model_loaded is true exactly when there is an
\* instance; once there is one it stays, the same, with the flag true.
C12_LazySingleton ==
    /\ [](/\ worker.constructed <= 1
          /\ worker.model_loaded <=> worker.model # 0
          /\ worker.returned \in {0, worker.model})
    /\ [][/\ worker.model_loaded
               => worker'.model_loaded /\ worker'.model = worker.model
          /\ (nlp'.raw # nlp.raw /\ nlp'.raw # <<>>)
               => worker'.model # 0 /\ worker'.returned = worker'.model]_vars

\* analyze_batch was called in a process that had loaded the model before
C12_Witness ==
    /\ worker.constructed = 1 /\ worker.model_loaded
    /\ worker.model = 1 /\ worker.returned = 1
    /\ nlp.raw # <<>>


(***************************************************************************)
(* Properties of upsert_video                                              *)
(***************************************************************************)
VideoRows(vs, o, v) == {r \in vs : r.org_id = o /\ r.yt_video_id = v}

RECURSIVE SumCounts(_)
SumCounts(rows) == IF rows = <<>> THEN 0 ELSE Head(rows).count + SumCounts(Tail(rows))

\* C14: compute_distribution returns as count the number of sentiment rows of
\* the org on the comments of the video, and as each percentage that label's
\* number of rows divided by count; count is the sum of the bucket counts that
\* compute_and_store_trend gives on the same state, also for a video with no
\* sentiment rows.
C14_DistributionCountsRows ==
    [][(Served("distribution") /\ resp'.status = 200)
          => LET d == resp'.data[1]
                 o == resp'.org
                 rows == OwnSentiments(o)
                 pct == [l \in {"pos", "neg", "neu"} |->
                            IF l = "pos" THEN d.pos_pct
                            ELSE IF l = "neg" THEN d.neg_pct ELSE d.neu_pct]
             IN  /\ d.count = Cardinality(rows)
                 /\ \A l \in {"pos", "neg", "neu"} :
                       pct[l][1] * d.count
                          = Cardinality({x \in rows : x.label = l}) * pct[l][2]
                 /\ \A v \in ExtVideos, w \in ValidWindows :
                       d.count = SumCounts(TrendValues(resolve_video_uuid(o, v), o, w))]_vars


(***************************************************************************)
(* A uniqueness violation in the analysis task                             *)
(***************************************************************************)
\* the staged row has the key of a stored sentiment row
Conflicts(x) ==
    \E y \in sentiments : y.org_id = x.org_id /\ y.comment_id = x.comment_id

\* C15: when a run of _analyze_comments comes to insert a row whose
\* (org_id, comment_id) a concurrent run has inserted already, the task does
\* not fail: the run ends in SUCCESS, the rows that were there stay, and every
\* other comment of the batch has its sentiment row.
C15_ConflictSkipsRowOnly ==
    [][\A i \in 1..Len(tasks) :
          LET t == tasks[i]
          IN  (/\ t.kind = "analyze" /\ t.pc = "commit" /\ tasks'[i].pc # "commit"
               /\ \E k \in 1..Len(t.sel) : Conflicts(t.sel[k]))
                => /\ tasks'[i].status = "SUCCESS"
                   /\ sentiments \subseteq sentiments'
                   /\ \A k \in 1..Len(t.sel) :
                         \E y \in sentiments' : /\ y.org_id = t.sel[k].org_id
                                                /\ y.comment_id = t.sel[k].comment_id]_vars


\* C16: a trend task whose window is not a supported granularity is not
\* retried and writes nothing: the step that runs it leaves the task out of
\* RETRY with its retry count as it was, and the aggregates as they were.
C16_UnsupportedWindowNotRetried ==
    [][\A i \in 1..Len(tasks) :
          (/\ tasks[i].kind = "trend" /\ tasks[i].window \notin ValidWindows
           /\ tasks'[i] # tasks[i])
             => /\ tasks'[i].status # "RETRY"
                /\ tasks'[i].retries = tasks[i].retries
                /\ aggregates' = aggregates]_vars


RECURSIVE CountAdmitted(_)
CountAdmitted(cs) ==
    IF cs = <<>> THEN 0
    ELSE (IF Head(cs).allowed THEN 1 ELSE 0) + CountAdmitted(Tail(cs))

\* C17: once the interleaved check_rate_limit calls of a tenant have all
\* returned, they have admitted at most one call more than a sequential
\* execution of the same calls at the same times admits.
C17_OverAdmitAtMostOne ==
    (\A i \in 1..Len(calls) : calls[i].pc = "done")
        => CountAdmitted(calls) <= SeqAdmitted(NoBucket, calls) + 1


\* an ingestion request is answered in this step
IngestServed == resp'.n = resp.n + 1 /\ resp'.op = "ingest"

\* C18 as stated: an ingestion request made while the rate-limit store is
\* unreachable is admitted, and a fetch_comments task is enqueued for it.
C18_OutageFailsOpen ==
    [][(IngestServed /\ ~redis_up)
          => /\ resp'.status = 200
             /\ Len(tasks') = Len(tasks) + 1
             /\ tasks'[Len(tasks')].kind = "fetch"]_vars

\* C18: an ingestion request made while the rate-limit store is unreachable
\* fails with a server error: no task is enqueued and the bucket and the log
\* of the tenant are left as they were.
C18_OutageFailsRequest ==
    [][(IngestServed /\ ~redis_up)
          => /\ resp'.status = 500 /\ resp'.body = 0
             /\ tasks' = tasks
             /\ redis' = redis /\ rlLog' = rlLog]_vars

\* a request failed during an outage that followed an admitted request
C18_Witness ==
    /\ ~redis_up
    /\ resp.op = "ingest" /\ resp.status = 500
    /\ Len(tasks) = 1 /\ redis[resp.org].present


(***************************************************************************)
(* Order and durability of the writes of an ingestion run                  *)
(***************************************************************************)
\* task i executes upsert_comments in this step
WritesBatch(i) == tasks[i].pc = "upsert_page" /\ tasks'[i].pc = "fetch_page"

\* the row of the comment with external id cid of org o, in the table cs
StoredRows(cs, o, cid) == {r \in cs : r.org_id = o /\ r.yt_comment_id = cid}

\* C19: when a run writes a comment batch, the Video row of its (org_id,
\* external id) is in the table already, the batch is written with the id of
\* that row as video_id, and it is the page that follows the pages written so
\* far; comments are written by such steps only, and every comment row refers
\* to a Video row of its org.
C19_VideoBeforeComments ==
    /\ [][\A i \in 1..Len(tasks) :
            WritesBatch(i) =>
              LET t == tasks[i]
              IN  /\ \E r \in videos : /\ r.id = t.video_pk /\ r.org_id = t.org_id
                                        /\ r.yt_video_id = t.video_id
                  /\ lastUpsert'.org_id = t.org_id
                  /\ lastUpsert'.video_id = t.video_pk
                  /\ t.page < Len(ext[t.video_id].pages)
                  /\ lastUpsert'.batch = BatchWithDefaults(ext[t.video_id].pages[t.page + 1])
                  /\ tasks'[i].page = t.page + 1
                  /\ \A k \in 1..Len(t.batch) :
                        \A r \in StoredRows(comments', t.org_id, t.batch[k].yt_comment_id) :
                            r.video_id = t.video_pk]_vars
    /\ [][comments' # comments => \E i \in 1..Len(tasks) : WritesBatch(i)]_vars
    /\ [](\A c \in comments : \E r \in videos : r.id = c.video_id /\ r.org_id = c.org_id)

\* a run has written two batches, each with the id of its Video row
C19_Witness ==
    \E i \in 1..Len(tasks) :
        /\ tasks[i].status = "SUCCESS" /\ tasks[i].page = 2
        /\ Cardinality(StoredRows(comments, tasks[i].org_id, "yt1_c0")) = 1
        /\ Cardinality(StoredRows(comments, tasks[i].org_id, "yt1_c1")) = 1
        /\ \A c \in comments : c.org_id = tasks[i].org_id => c.video_id = tasks[i].video_pk

\* task i fails in this step
Fails(i) == tasks[i].status = "STARTED" /\ tasks'[i].status \in {"RETRY", "FAILURE"}

\* the external ids of the comments on the pages 1..n
RECURSIVE IdsOnPages(_, _)
IdsOnPages(pages, n) ==
    IF n = 0 THEN {}
    ELSE {pages[n][k].yt_comment_id : k \in 1..Len(pages[n])} \cup IdsOnPages(pages, n - 1)

DaySeconds == 86400

\* the sentiment rows of the video whose analyzed_at lies on the day that
\* starts at d
OnDay(video_uuid, o, d) ==
    {s \in Joined(video_uuid, o) : d <= s.analyzed_at /\ s.analyzed_at < d + DaySeconds}

\* the days on which the video has sentiment rows
DaysOf(video_uuid, o) ==
    {s.analyzed_at - (s.analyzed_at % DaySeconds) : s \in Joined(video_uuid, o)}

\* the aggregate rows stored under the key of the day that starts at d
DayRows(as, video_uuid, o, d) ==
    {a \in as : /\ a.org_id = o /\ a.video_id = video_uuid
                /\ a.window_start = d /\ a.window_end = d + DaySeconds - 1}

\* the table as has, for every day with sentiment rows, one row with the
\* count and the fractions of that day
DayAggregatesExact(as, video_uuid, o) ==
    \A d \in DaysOf(video_uuid, o) :
        /\ Cardinality(DayRows(as, video_uuid, o, d)) = 1
        /\ \A a \in DayRows(as, video_uuid, o, d) :
              LET n(l) == Cardinality({s \in OnDay(video_uuid, o, d) : s.label = l})
              IN  /\ a.count = Cardinality(OnDay(video_uuid, o, d))
                  /\ a.pos_pct = <<n("pos"), a.count>>
                  /\ a.neg_pct = <<n("neg"), a.count>>
                  /\ a.neu_pct = <<n("neu"), a.count>>

\* a trend request is answered in this step with a bucket for every day on
\* which the org has sentiment rows: a run with window 'day' (a run with
\* window 'week' gives the same buckets only when it computes the same rows)
DayRun ==
    /\ Served("trend") /\ resp'.status = 200
    /\ \A s \in OwnSentiments(resp'.org) :
          \E k \in 1..Len(resp'.data) :
              resp'.data[k].window_start = s.analyzed_at - (s.analyzed_at % DaySeconds)

\* C21: after a trend run with window 'day' every day that has sentiment
\* rows of the org and video has exactly one aggregate row under its key,
\* with the number of rows of the day as count and the per-label counts over
\* that count as fractions, whatever was stored before; and a run that finds
\* the rows of all days stored like that leaves the table as it was.
C21_DayAggregates ==
    [][DayRun =>
          \A v \in ExtVideos :
              LET o == resp'.org
                  video_uuid == resolve_video_uuid(o, v)
              IN  video_uuid # 0 =>
                    /\ DayAggregatesExact(aggregates', video_uuid, o)
                    /\ DayAggregatesExact(aggregates, video_uuid, o)
                          => aggregates' = aggregates]_vars

\* the second trend run has stored a day with the two sentiment rows that
\* two analysis runs wrote, and the stored rows are those of the days
C21_Witness ==
    /\ resp.n = 2 /\ resp.op = "trend" /\ resp.status = 200
    /\ Len(resp.data) = 1 /\ resp.data[1].count = 2
    /\ \E x \in sentiments, y \in sentiments : x.id # y.id /\ x.label # y.label
    /\ \E a \in aggregates : a.count = 2 /\ a.window_start = 0 /\ a.id = 1
                              /\ a.pos_pct[1] + a.neg_pct[1] + a.neu_pct[1] = 2


\* the response holds the values of the aggregate row a
InData(data, a) ==
    \E k \in 1..Len(data) : [id |-> a.id] @@ data[k] = a

\* C30: a trend run with window 'week' that follows a run with window 'day'
\* leaves every row that the 'day' run stored as it is, because the buckets of
\* the two granularities have different (window_start, window_end) keys.
C30_OtherGranularityKept ==
    [][(/\ resp.op = "trend" /\ resp.status = 200
        /\ \E k \in 1..Len(resp.data) : resp.data[k].window_start % (7 * DaySeconds) # 0
        /\ Served("trend") /\ resp'.status = 200 /\ ~DayRun)
          => \A a \in aggregates : InData(resp.data, a) => a \in aggregates']_vars


\* the key of an aggregate row or of the values of a bucket
SameKey(a, b) ==
    /\ a.org_id = b.org_id /\ a.video_id = b.video_id
    /\ a.window_start = b.window_start /\ a.window_end = b.window_end

\* C22: with trend runs of one tenant, video and window on two workers,
\* the commit of a run leaves every row of its buckets equal in all fields to
\* the values that run computed and every other row as it was, so that each
\* stored row holds the values of one run, the last that wrote it, even when
\* these come from an older snapshot than another run's.
C22_LastWriterWins ==
    /\ [][\A i \in 1..Len(tasks) :
            (tasks[i].kind = "trend" /\ tasks[i].pc = "commit" /\ tasks'[i].pc = "done")
              => /\ \A k \in 1..Len(tasks[i].sel) :
                      \E a \in aggregates' :
                          /\ InData(<<tasks[i].sel[k]>>, a)
                          /\ \A b \in aggregates' : SameKey(a, b) => b = a
                 /\ \A a \in aggregates :
                      (\A k \in 1..Len(tasks[i].sel) : ~SameKey(a, tasks[i].sel[k]))
                          => a \in aggregates']_vars
    /\ [](\A a \in aggregates :
            \E j \in 1..Len(tasks) : tasks[j].pc = "done" /\ InData(tasks[j].sel, a))

\* two runs are done, the run with the older snapshot committed last: the
\* stored row counts one sentiment row where the other run counted two
C22_Witness ==
    /\ Len(tasks) = 2 /\ tasks[1].pc = "done" /\ tasks[2].pc = "done"
    /\ Len(tasks[1].sel) = 1 /\ Len(tasks[2].sel) = 1
    /\ tasks[1].sel[1].count # tasks[2].sel[1].count
    /\ \E a \in aggregates : a.count = 1 /\ Cardinality(Joined(a.video_id, a.org_id)) = 2


(***************************************************************************)
(* Stored keywords                                                         *)
(***************************************************************************)
\* the terms of the response
ReturnedTerms(data) == {data[a].term : a \in 1..Len(data)}

\* C23: no step deletes a keyword row or changes its org, video or term; a
\* keyword run leaves the row of every term it does not return as it is,
\* count included, so the rows of a video can be more than top_k.
C23_KeywordsNeverPruned ==
    [][/\ \A kw \in keywords :
            \E kw2 \in keywords' : /\ kw2.id = kw.id /\ kw2.org_id = kw.org_id
                                   /\ kw2.video_id = kw.video_id /\ kw2.term = kw.term
       /\ Served("keywords") =>
            \A kw \in keywords :
                (kw.org_id # resp'.org \/ kw.term \notin ReturnedTerms(resp'.data))
                    => kw \in keywords']_vars

\* after a run with top_k = 3 the video has four rows, one of them for a
\* term that no comment contains any more
C23_Witness ==
    /\ resp.op = "keywords" /\ resp.status = 200 /\ resp.top_k = 3
    /\ Len(resp.data) = 3
    /\ Cardinality({kw \in keywords : kw.org_id = resp.org}) = 4
    /\ \E kw \in keywords :
          /\ kw.org_id = resp.org /\ kw.count = 1
          /\ Occurrences(OwnComments(resp.org), kw.term) = 0

\* the table ks has one row for the term of the org and video, with count n
OneRowWithCount(ks, o, video_uuid, term, n) ==
    /\ Cardinality({kw \in ks : /\ kw.org_id = o /\ kw.video_id = video_uuid
                                /\ kw.term = term}) = 1
    /\ \A kw \in ks : (kw.org_id = o /\ kw.video_id = video_uuid /\ kw.term = term)
                          => kw.count = n

\* C24: after a keyword run every returned term has exactly one row of the
\* org and video, and its count is the frequency of the term in the comments
\* as they are now, whatever count was stored; a run that finds the returned
\* terms stored like that leaves the table as it was.
C24_CountReplaced ==
    [][(Served("keywords") /\ resp'.status = 200)
          => \A v \in ExtVideos :
                LET o == resp'.org
                    video_uuid == resolve_video_uuid(o, v)
                    now_stored(ks) ==
                        \A a \in 1..Len(resp'.data) :
                            OneRowWithCount(ks, o, video_uuid, resp'.data[a].term,
                                Occurrences(OwnComments(o), resp'.data[a].term))
                IN  video_uuid # 0 =>
                       /\ now_stored(keywords')
                       /\ now_stored(keywords) => keywords' = keywords]_vars

\* the second run has replaced the count 1 of the first row by 2
C24_Witness ==
    /\ resp.n = 2 /\ resp.op = "keywords" /\ resp.status = 200
    /\ Len(resp.data) >= 1 /\ resp.data[1].count = 2
    /\ \E kw \in keywords : /\ kw.id = 1 /\ kw.org_id = resp.org /\ kw.count = 2
                             /\ kw.term = resp.data[1].term
    /\ Cardinality(OwnComments(resp.org)) = 2


(***************************************************************************)
(* Sentiment rows are written once                                         *)
(***************************************************************************)
\* C25: a sentiment row that is stored stays as it is in every step of
\* ingestion, analysis, trend and keyword runs, also when the text of its
\* comment is overwritten; an analysis run adds rows only for comments that
\* had none, one per text it analyzed.
C25_SentimentWrittenOnce ==
    [][/\ sentiments \subseteq sentiments'
       /\ \A x \in sentiments' \ sentiments :
             ~ \E y \in sentiments : y.org_id = x.org_id /\ y.comment_id = x.comment_id
       /\ sentiments' # sentiments
             => Cardinality(sentiments' \ sentiments) = Len(nlp'.texts)]_vars

\* the comment was analyzed with its first text and then edited: the row of
\* the first analysis is there, and no comment waits for analysis
C25_Witness ==
    /\ nlp.texts = <<"The cat sat">>
    /\ Cardinality(sentiments) = 1
    /\ \E c \in comments :
          /\ c.text = "the cat ran"
          /\ \E x \in sentiments : x.comment_id = c.id /\ x.org_id = c.org_id
    /\ \A o \in AnalyzeOrgs, v \in ExtVideos : Pending(o, v) = {}
    /\ resp.n = 2

(***************************************************************************)
(* References stay inside the tenant                                       *)
(***************************************************************************)
\* C28: every comment row refers to a video row of its org, and every
\* sentiment row refers to a comment row of its org.
C28_ReferencesInsideTenant ==
    /\ \A c \in comments :
          /\ \E w \in videos : w.id = c.video_id
          /\ \A w \in videos : w.id = c.video_id => w.org_id = c.org_id
    /\ \A x \in sentiments :
          /\ \E c \in comments : c.id = x.comment_id
          /\ \A c \in comments : c.id = x.comment_id => c.org_id = x.org_id

\* two tenants have ingested the same video and an analysis task of one of
\* them has written its rows
C28_Witness ==
    /\ \A o \in Orgs : \E c \in comments : c.org_id = o
    /\ \E i \in 1..Len(tasks) : tasks[i].kind = "analyze" /\ tasks[i].status = "SUCCESS"
                                  /\ tasks[i].result >= 1
    /\ sentiments # {}


(***************************************************************************)
(* Bounds of the token bucket                                              *)
(***************************************************************************)
\* how many of the calls a..b were admitted
AdmittedIn(cs, a, b) == Cardinality({k \in a..b : cs[k].allowed})

\* C26: of the sequential calls of a tenant made in a span of T seconds at
\* most 5 + T * (5/60) are admitted, whether or not the key ran out in the
\* span, and the stored tokens are between 0 and the capacity.  A token is
\* RATE_LIMIT_REFILL_DEN units, so the bound is multiplied by it.
C26_AdmissionBound ==
    /\ \A a, b \in 1..Len(calls) :
          a <= b => AdmittedIn(calls, a, b) * OneToken
                       <= Capacity + (calls[b].now - calls[a].now) * RATE_LIMIT_REFILL_NUM
    /\ \A o \in Orgs : redis[o].present => 0 <= redis[o].tokens /\ redis[o].tokens <= Capacity

\* the capacity was used up, the key ran out after KEY_TTL seconds without a
\* call, and calls after that were admitted
C26_Witness ==
    /\ Len(calls) = RATE_LIMIT_MAX_TOKENS + 3
    /\ \A k \in 1..RATE_LIMIT_MAX_TOKENS : calls[k].now = 0 /\ calls[k].allowed
    /\ ~calls[RATE_LIMIT_MAX_TOKENS + 1].allowed
    /\ calls[RATE_LIMIT_MAX_TOKENS + 2].now = KEY_TTL /\ calls[RATE_LIMIT_MAX_TOKENS + 2].allowed
    /\ calls[RATE_LIMIT_MAX_TOKENS + 2].tokens = Capacity
    /\ calls[RATE_LIMIT_MAX_TOKENS + 3].allowed

\* the last admitted call of the log L
LastAdmitted(L) == CHOOSE a \in 1..Len(L) : L[a].allowed /\ \A k \in (a + 1)..Len(L) : ~L[k].allowed

\* C27: a call made 1/refill_rate seconds or more after the last admitted
\* call of the tenant is admitted, however many denied calls were made in
\* between; the first call on a new bucket is admitted.
C27_DeniedCallsKeepRefill ==
    [][\A o \in Orgs :
          rlLog'[o] # rlLog[o] =>
             LET L == rlLog'[o]
                 e == L[Len(L)]
             IN  /\ Len(L) = 1 => e.allowed
                 /\ Len(L) > 1 =>
                       /\ \E a \in 1..(Len(L) - 1) : L[a].allowed
                       /\ e.t - L[LastAdmitted(rlLog[o])].t >= RefillWait => e.allowed]_vars

\* the capacity was used up, calls half way through the wait and right
\* before its end were denied, and the call at its end was admitted
C27_Witness ==
    \E o \in Orgs :
        LET L == rlLog[o]
        IN  /\ Len(L) = RATE_LIMIT_MAX_TOKENS + 3
            /\ \A k \in 1..RATE_LIMIT_MAX_TOKENS : L[k].allowed /\ L[k].t = L[1].t
            /\ ~L[RATE_LIMIT_MAX_TOKENS + 1].allowed /\ ~L[RATE_LIMIT_MAX_TOKENS + 2].allowed
            /\ L[RATE_LIMIT_MAX_TOKENS + 1].t > L[1].t
            /\ L[RATE_LIMIT_MAX_TOKENS + 1].t < L[1].t + RefillWait
            /\ L[RATE_LIMIT_MAX_TOKENS + 3].t = L[1].t + RefillWait
            /\ L[RATE_LIMIT_MAX_TOKENS + 3].allowed


(***************************************************************************)
(* Who sees the status of a task                                           *)
(***************************************************************************)
\* what the result backend gives for a task id it has no record of
UnknownTask == <<[status |-> "PENDING", result |-> -1]>>

\* C29: a status request of a user of one tenant for a task that another
\* tenant submitted is answered as for a task id that does not exist, so the
\* answer tells nothing about the other tenant's task.
C29_StatusOnlyForOwner ==
    [][(Served("status") /\ tasks[resp'.body].org_id # resp'.org)
          => resp'.data = UnknownTask]_vars

====
